---- MODULE Spec2Model ----
(***************************************************************************)
(* AirSense two-room monitoring server (src/server3.py): the alert         *)
(* evaluator check_thresholds_and_alert, the ingestion callback            *)
(* on_message and the threshold route api_thresholds.                      *)
(*                                                                         *)
(* src/server3.py carries an unresolved merge (markers at lines 401, 500   *)
(* and 610).  The evaluator is modelled with the incoming side of the      *)
(* merge (lines 501-609), the side that reads the eco2_normal / eco2_high  *)
(* keys DEFAULT_THRESHOLDS defines; lines 330-400 and 612-636 are common   *)
(* to both sides.                                                          *)
(*                                                                         *)
(* Threads: the paho network thread (start_mqtt, loop_forever) runs        *)
(* on_message one delivery at a time; Flask serves api_thresholds on its   *)
(* own thread.  No lock is taken anywhere, so the two interleave at every  *)
(* statement that touches a shared dict.  One threshold POST is in flight  *)
(* at a time.                                                              *)
(*                                                                         *)
(* Collaborators: Spec and SpecEval take the store and the Telegram API to *)
(* answer; SpecFail lets every insert, log write and send fail, and lets   *)
(* malformed payloads arrive.                                              *)
(*                                                                         *)
(* Time is in whole seconds; datetime.now() is taken to be non-decreasing. *)
(* Sensor values and thresholds are integers (the code holds floats; only  *)
(* their order matters to the evaluator).                                  *)
(***************************************************************************)
EXTENDS Integers, Sequences, FiniteSets, TLC

\* ---------------------------------------------------------------- bounds
MaxMsgs == 2        \* readings delivered to on_message
MaxUpdates == 1     \* POST /api/thresholds/<room> requests
MaxTicks == 1       \* clock advances
MaxProbe == 5       \* largest value handed to the classifiers on their own
MaxRequests == 2    \* GET requests and socket connections
MaxRestarts == 1    \* process restarts

\* ------------------------------------------------------ program constants
TvocCooldown == 300
ComfortCooldown == 600
SecondsPerDay == 86400

Rooms == {"bedroom", "workingroom"}
MQTT_TOPIC_BEDROOM == "topic_bedroom"
MQTT_TOPIC_WORKINGROOM == "topic_workingroom"
Topics == {MQTT_TOPIC_BEDROOM, MQTT_TOPIC_WORKINGROOM}
Metrics == {"tvoc", "temperature", "humidity", "eco2"}

\* room names that can stand in a request path; "kitchen" is no room
RequestRooms == Rooms \cup {"kitchen"}

ValidRoomAny(room) == TRUE

\* if room not in ["bedroom", "workingroom"]
ValidRoom(room) == room \in Rooms

RoomOrDefaultBedroom(room) == "bedroom"

\* x_bedroom if room == "bedroom" else x_workingroom
RoomOrDefault(room) == IF room = "bedroom" THEN "bedroom" ELSE "workingroom"

TableOfBedroom(room) == "bedroom"

\* table = "sensor_data" if room == "bedroom" else "sensor_data1"
TableOf(room) == RoomOrDefault(room)

DEFAULT_THRESHOLDS ==
  [tvoc_good |-> 65, tvoc_normal |-> 220, tvoc_high |-> 660,
   temp_min |-> 18, temp_max |-> 35,
   humidity_min |-> 30, humidity_max |-> 70,
   eco2_min |-> 400, eco2_normal |-> 1000, eco2_high |-> 2000]

required_keys ==
  <<"tvoc_max", "temp_min", "temp_max", "humidity_min", "humidity_max",
    "eco2_min", "eco2_max">>

\* ------------------------------------------------------------- dict helpers
EmptyDict == [k \in {} |-> 0]

\* d[k] = v on a Python dict
Put(d, k, v) == [x \in (DOMAIN d) \cup {k} |-> IF x = k THEN v ELSE d[x]]

GetLowerOnly(data, lower, upper, default) ==
  IF lower \in DOMAIN data THEN data[lower] ELSE default

\* data.get(lower, data.get(upper, default))
Get(data, lower, upper, default) ==
  IF lower \in DOMAIN data THEN data[lower]
  ELSE IF upper \in DOMAIN data THEN data[upper]
  ELSE default

\* an MQTT payload: does json.loads accept it, the dict it gives, and the
\* keys whose value is text that float() / int() refuse
WellFormed(data) == [data |-> data, json |-> TRUE, text |-> {}]

\* the key whose value data.get(lower, data.get(upper, default)) returns
Picked(data, lower, upper) ==
  IF lower \in DOMAIN data THEN lower
  ELSE IF upper \in DOMAIN data THEN upper
  ELSE "default"

DecodeWithDefaults(payload) ==
  LET data == IF payload.json THEN payload.data ELSE EmptyDict
      val(lower, upper, default) ==
        IF Picked(data, lower, upper) \in payload.text THEN default
        ELSE Get(data, lower, upper, default)
  IN [ok |-> TRUE,
      tvoc |-> val("tvoc", "TVOC", 0),
      temperature |-> val("temperature", "Temperature", 0),
      humidity |-> val("humidity", "Humidity", 0),
      eco2 |-> val("eco2", "eCO2", 0),
      aqi |-> val("aqi", "AQI", 1)]

\* lines 652-662: json.loads, then float() / int() of each looked-up value;
\* any of them raising leaves the try block before anything is stored
Decode(payload) ==
  IF ~payload.json
  THEN [ok |-> FALSE, tvoc |-> 0, temperature |-> 0, humidity |-> 0,
        eco2 |-> 0, aqi |-> 1]
  ELSE LET data == payload.data
           refused ==
             \/ Picked(data, "tvoc", "TVOC") \in payload.text
             \/ Picked(data, "temperature", "Temperature") \in payload.text
             \/ Picked(data, "humidity", "Humidity") \in payload.text
             \/ Picked(data, "eco2", "eCO2") \in payload.text
             \/ Picked(data, "aqi", "AQI") \in payload.text
       IN [ok |-> ~refused,
           tvoc |-> Get(data, "tvoc", "TVOC", 0),
           temperature |-> Get(data, "temperature", "Temperature", 0),
           humidity |-> Get(data, "humidity", "Humidity", 0),
           eco2 |-> Get(data, "eco2", "eCO2", 0),
           aqi |-> Get(data, "aqi", "AQI", 1)]

AfterErrorDead == "dead"

AfterErrorContinue == "insert"

\* lines 702-703: the except clause logs and on_message returns
AfterError == "idle"

AfterInsertErrorRaise == AfterError

\* lines 197-199: insert_sensor_data catches its own failure, so the call at
\* line 677 returns and line 680 runs
AfterInsertError == "tvoc"

\* ---------------------------------------------------------------- messages
NoLevel == "absent"

\* an f-string message: which template, the value and the bound it embeds
Msg(tag, value, bound) == [tag |-> tag, value |-> value, bound |-> bound, text |-> ""]

\* alert_message = None
NoMsg == [tag |-> "None", value |-> 0, bound |-> 0, text |-> ""]

\* truthiness of alert_message
HasMsg(c) == c.message # NoMsg

\* the metric a message template or an alert type speaks about
MetricOf(tag) ==
  IF tag \in {"tvoc_too_high", "tvoc_high", "tvoc_normal", "tvoc_good"} THEN "tvoc"
  ELSE IF tag \in {"temp_high", "temp_low", "temp_normal"} THEN "temperature"
  ELSE IF tag \in {"humidity_high", "humidity_low", "humidity_normal",
                   "humidity_abnormal", "humidity_too_low_extra",
                   "humidity_too_high_extra"} THEN "humidity"
  ELSE IF tag \in {"eco2_too_high", "eco2_high", "eco2_normal", "eco2_low"} THEN "eco2"
  ELSE "aqi"

\* -------------------------------------------------------------- classifiers
ClassifyTvocGE(tvoc, th) ==
  IF tvoc >= th["tvoc_high"] THEN
    [key |-> "tvoc_too_high", severity |-> "danger", status |-> "too_high",
     message |-> Msg("tvoc_too_high", tvoc, th["tvoc_high"])]
  ELSE IF tvoc >= th["tvoc_normal"] THEN
    [key |-> "tvoc_high", severity |-> "warning", status |-> "high",
     message |-> Msg("tvoc_high", tvoc, 0)]
  ELSE IF tvoc >= th["tvoc_good"] THEN
    [key |-> "tvoc_normal", severity |-> "info", status |-> "normal",
     message |-> NoMsg]
  ELSE
    [key |-> "tvoc_good", severity |-> "success", status |-> "good",
     message |-> NoMsg]

ClassifyTvocSwapped(tvoc, th) ==
  IF tvoc > th["tvoc_high"] THEN
    [key |-> "tvoc_too_high", severity |-> "warning", status |-> "too_high",
     message |-> Msg("tvoc_too_high", tvoc, th["tvoc_high"])]
  ELSE IF tvoc > th["tvoc_normal"] THEN
    [key |-> "tvoc_high", severity |-> "danger", status |-> "high",
     message |-> Msg("tvoc_high", tvoc, 0)]
  ELSE IF tvoc > th["tvoc_good"] THEN
    [key |-> "tvoc_normal", severity |-> "info", status |-> "normal",
     message |-> NoMsg]
  ELSE
    [key |-> "tvoc_good", severity |-> "success", status |-> "good",
     message |-> NoMsg]

\* lines 341-357
ClassifyTvoc(tvoc, th) ==
  IF tvoc > th["tvoc_high"] THEN
    [key |-> "tvoc_too_high", severity |-> "danger", status |-> "too_high",
     message |-> Msg("tvoc_too_high", tvoc, th["tvoc_high"])]
  ELSE IF tvoc > th["tvoc_normal"] THEN
    [key |-> "tvoc_high", severity |-> "warning", status |-> "high",
     message |-> Msg("tvoc_high", tvoc, 0)]
  ELSE IF tvoc > th["tvoc_good"] THEN
    [key |-> "tvoc_normal", severity |-> "info", status |-> "normal",
     message |-> NoMsg]
  ELSE
    [key |-> "tvoc_good", severity |-> "success", status |-> "good",
     message |-> NoMsg]

\* the "level" entry of the tvoc alert dict
TvocLevel(tvoc, th) ==
  IF tvoc > th["tvoc_high"] THEN "too_high"
  ELSE IF tvoc > th["tvoc_normal"] THEN "high"
  ELSE IF tvoc > th["tvoc_good"] THEN "normal"
  ELSE "good"

ClassifyTemperatureOneKey(temperature, th) ==
  IF temperature > th["temp_max"] THEN
    [key |-> "temp_abnormal", severity |-> "warning", status |-> "high",
     message |-> Msg("temp_high", temperature, th["temp_max"])]
  ELSE IF temperature < th["temp_min"] THEN
    [key |-> "temp_abnormal", severity |-> "warning", status |-> "low",
     message |-> Msg("temp_low", temperature, th["temp_min"])]
  ELSE
    [key |-> "temp_normal", severity |-> "success", status |-> "normal",
     message |-> NoMsg]

ClassifyTemperatureGE(temperature, th) ==
  IF temperature >= th["temp_max"] THEN
    [key |-> "temp_high", severity |-> "warning", status |-> "high",
     message |-> Msg("temp_high", temperature, th["temp_max"])]
  ELSE IF temperature < th["temp_min"] THEN
    [key |-> "temp_low", severity |-> "warning", status |-> "low",
     message |-> Msg("temp_low", temperature, th["temp_min"])]
  ELSE
    [key |-> "temp_normal", severity |-> "success", status |-> "normal",
     message |-> NoMsg]

ClassifyTemperature(temperature, th) ==
  IF temperature > th["temp_max"] THEN
    [key |-> "temp_high", severity |-> "warning", status |-> "high",
     message |-> Msg("temp_high", temperature, th["temp_max"])]
  ELSE IF temperature < th["temp_min"] THEN
    [key |-> "temp_low", severity |-> "warning", status |-> "low",
     message |-> Msg("temp_low", temperature, th["temp_min"])]
  ELSE
    [key |-> "temp_normal", severity |-> "success", status |-> "normal",
     message |-> NoMsg]

ClassifyHumidity(humidity, th) ==
  IF humidity > th["humidity_max"] THEN
    [key |-> "humidity_high", severity |-> "warning", status |-> "high",
     message |-> Msg("humidity_high", humidity, th["humidity_max"])]
  ELSE IF humidity < th["humidity_min"] THEN
    [key |-> "humidity_low", severity |-> "warning", status |-> "low",
     message |-> Msg("humidity_low", humidity, th["humidity_min"])]
  ELSE
    [key |-> "humidity_normal", severity |-> "success", status |-> "normal",
     message |-> NoMsg]

ClassifyEco2Strict(eco2, th) ==
  IF eco2 > th["eco2_high"] THEN
    [key |-> "eco2_too_high", severity |-> "danger", status |-> "too_high",
     message |-> Msg("eco2_too_high", eco2, th["eco2_high"])]
  ELSE IF eco2 > th["eco2_normal"] THEN
    [key |-> "eco2_high", severity |-> "warning", status |-> "high",
     message |-> Msg("eco2_high", eco2, 0)]
  ELSE IF eco2 > th["eco2_min"] THEN
    [key |-> "eco2_normal", severity |-> "success", status |-> "normal",
     message |-> NoMsg]
  ELSE
    [key |-> "eco2_low", severity |-> "warning", status |-> "low",
     message |-> Msg("eco2_low", eco2, th["eco2_min"])]

\* lines 571-593: the lowest comparison is >=, and the tier under eco2_min
\* is "low", a warning with a message
ClassifyEco2(eco2, th) ==
  IF eco2 > th["eco2_high"] THEN
    [key |-> "eco2_too_high", severity |-> "danger", status |-> "too_high",
     message |-> Msg("eco2_too_high", eco2, th["eco2_high"])]
  ELSE IF eco2 > th["eco2_normal"] THEN
    [key |-> "eco2_high", severity |-> "warning", status |-> "high",
     message |-> Msg("eco2_high", eco2, 0)]
  ELSE IF eco2 >= th["eco2_min"] THEN
    [key |-> "eco2_normal", severity |-> "success", status |-> "normal",
     message |-> NoMsg]
  ELSE
    [key |-> "eco2_low", severity |-> "warning", status |-> "low",
     message |-> Msg("eco2_low", eco2, th["eco2_min"])]

\* ----------------------------------------------------------------- cooldown
\* timedelta.seconds: the seconds field of a normalised timedelta
\* (days, seconds, microseconds), 0 <= seconds < 86400; the days are dropped
TimedeltaSeconds(d) == d % SecondsPerDay

CooldownElapsedGE(last_alert_time, alert_key, current_time, cooldown) ==
  \/ alert_key \notin DOMAIN last_alert_time
  \/ TimedeltaSeconds(current_time - last_alert_time[alert_key]) >= cooldown

\* alert_key not in last_alert_time
\*   or (current_time - last_alert_time[alert_key]).seconds > cooldown
CooldownElapsed(last_alert_time, alert_key, current_time, cooldown) ==
  \/ alert_key \notin DOMAIN last_alert_time
  \/ TimedeltaSeconds(current_time - last_alert_time[alert_key]) > cooldown

RecordFireAlways(last_alert_time, alert_key, current_time, fire) ==
  Put(last_alert_time, alert_key, current_time)

RecordFireReplace(last_alert_time, alert_key, current_time, fire) ==
  IF fire THEN [k \in {alert_key} |-> current_time] ELSE last_alert_time

\* last_alert_time[alert_key] = current_time, inside the if that fires
RecordFire(last_alert_time, alert_key, current_time, fire) ==
  IF fire THEN Put(last_alert_time, alert_key, current_time)
  ELSE last_alert_time

\* ---------------------------------------------------------------- AQI line
AqiDescription(aqi) ==
  IF aqi = 1 THEN "Excellent"
  ELSE IF aqi = 2 THEN "Good"
  ELSE IF aqi = 3 THEN "Morderate"
  ELSE IF aqi = 4 THEN "Poor"
  ELSE IF aqi = 5 THEN "Unhealthy"
  ELSE "Undefined"

AqiMsg(aqi) == [tag |-> "aqi", value |-> aqi, bound |-> 0, text |-> AqiDescription(aqi)]

ShouldDispatchAnyMessage(should_send_alert, alert_messages) ==
  Len(alert_messages) > 0

ShouldDispatchPoorAir(should_send_alert, alert_messages) ==
  \/ should_send_alert
  \/ alert_messages[Len(alert_messages)].value >= 4

\* if should_send_alert:
ShouldDispatch(should_send_alert, alert_messages) == should_send_alert

\* outcome of requests.post in send_telegram_alert: status 200, or anything
\* else (another status, a timeout after 10 s, an exception); the else
\* branch and the except clause both only log
DeliveryResults == {"sent", "failed"}

SendTelegramAlertRetry(room, lines, result, at) ==
  LET try == [room |-> room, lines |-> lines, recommendations |-> TRUE,
              at |-> at, result |-> result]
  IN IF result = "failed" THEN <<try, try>> ELSE <<try>>

\* send_telegram_alert: the requests.post calls one call of it makes
SendTelegramAlert(room, lines, result, at) ==
  <<[room |-> room, lines |-> lines, recommendations |-> TRUE, at |-> at,
     result |-> result]>>

\* ------------------------------------------------------------------- inputs
\* payloads published on the two topics (json.loads result)
Payloads ==
  { [tvoc |-> 50, temperature |-> 25, humidity |-> 50, eco2 |-> 500, aqi |-> 1],
    [tvoc |-> 700, temperature |-> 25, humidity |-> 50, eco2 |-> 500, aqi |-> 3],
    [TVOC |-> 700, Temperature |-> 10, Humidity |-> 80, eCO2 |-> 2500, AQI |-> 5],
    [tvoc |-> 50, humidity |-> 20, eco2 |-> 300],
    [tvoc |-> 300, temperature |-> 40, humidity |-> 50, eco2 |-> 1500, aqi |-> 2] }

\* payloads that do not decode: bytes that are not JSON, a temperature of
\* "abc" (float raises ValueError), an AQI of "3.5" (int raises ValueError)
Malformed ==
  { [data |-> EmptyDict, json |-> FALSE, text |-> {}],
    [data |-> [tvoc |-> 700, temperature |-> 0, humidity |-> 50, eco2 |-> 500,
               aqi |-> 3],
     json |-> TRUE,
     text |-> {"temperature"}],
    [data |-> [TVOC |-> 50, Temperature |-> 25, Humidity |-> 50, eCO2 |-> 500,
               AQI |-> 0],
     json |-> TRUE,
     text |-> {"AQI"}] }

\* what arrives while collaborators fail: a breaching reading, a quiet one,
\* and the payloads that do not decode
FailPayloads ==
  { WellFormed([tvoc |-> 700, temperature |-> 25, humidity |-> 50,
                eco2 |-> 500, aqi |-> 3]),
    WellFormed([tvoc |-> 50, temperature |-> 25, humidity |-> 50,
                eco2 |-> 500, aqi |-> 1]) } \cup Malformed

Drop(data, k) == [j \in DOMAIN data \ {k} |-> data[j]]

\* complete payloads in each of the two spellings
FullPayloads ==
  { [tvoc |-> 700, temperature |-> 25, humidity |-> 50, eco2 |-> 500, aqi |-> 3],
    [TVOC |-> 300, Temperature |-> 10, Humidity |-> 80, eCO2 |-> 2500, AQI |-> 5] }

\* every payload that lacks exactly one field
MissingOne == {Drop(data, k) : data \in FullPayloads,
                               k \in {"tvoc", "temperature", "humidity", "eco2", "aqi",
                                      "TVOC", "Temperature", "Humidity", "eCO2", "AQI"}}
                 \ FullPayloads

\* JSON bodies posted to /api/thresholds/<room>
Bodies ==
  { [tvoc_max |-> 500, temp_min |-> 20, temp_max |-> 24, humidity_min |-> 40,
     humidity_max |-> 49, eco2_min |-> 450, eco2_max |-> 1500],
    [tvoc_max |-> 660, temp_min |-> 18, temp_max |-> 35, humidity_min |-> 80,
     humidity_max |-> 70, eco2_min |-> 400, eco2_max |-> 1000],
    [tvoc_max |-> 660, temp_min |-> 18, temp_max |-> 30, humidity_min |-> 30,
     humidity_max |-> 70, eco2_min |-> 400] }

\* seconds between two readings of the clock
Gaps == {TvocCooldown, TvocCooldown + 1, ComfortCooldown, ComfortCooldown + 1,
         SecondsPerDay + 100}

\* -------------------------------------------------------------------- state
VARIABLES
  thresholds,        \* thresholds_bedroom / thresholds_workingroom
  last_alert_time,   \* last_alert_time_bedroom / last_alert_time_workingroom
  current_data,      \* current_data_bedroom / current_data_workingroom
  now,               \* datetime.now()
  sensor_data,       \* tables sensor_data (bedroom) and sensor_data1 (workingroom)
  db_thresholds,     \* table thresholds, one row per room once written
  alert_history,     \* table alert_history
  telegram,          \* texts handed to send_telegram_alert, and when
  socket_out,        \* events handed to socketio.emit
  m,                 \* frame of on_message / check_thresholds_and_alert
  f,                 \* frame of api_thresholds (POST)
  count,             \* how many inputs have been taken
  prev,              \* per room: did each alert key's latest evaluation fire,
                     \* and the (metric, tier) pairs that have fired
  probe              \* a classifier applied on its own: inputs and result

vars == <<thresholds, last_alert_time, current_data, now, sensor_data,
          db_thresholds, alert_history, telegram, socket_out, m, f, count,
          prev, probe>>

PendingGhost == [key |-> "", status |-> "", outcome |-> "pending",
                 prevFired |-> FALSE, prevTime |-> 0, tierFired |-> FALSE]

IdleM ==
  [pc |-> "idle", room |-> "bedroom", tvoc |-> 0, temperature |-> 0,
   humidity |-> 0, eco2 |-> 0, aqi |-> 1, current_time |-> 0,
   alerts |-> <<>>, alert_messages |-> <<>>, should_send_alert |-> FALSE,
   ghost |-> [x \in Metrics |-> PendingGhost],
   telegram0 |-> 0, history0 |-> 0, cool0 |-> EmptyDict,
   payload |-> WellFormed(EmptyDict), error |-> "", inserted |-> FALSE,
   logged |-> FALSE, socket0 |-> 0, lat0 |-> [r \in Rooms |-> EmptyDict],
   attempts |-> 0, rows0 |-> [r \in Rooms |-> 0]]

IdleF ==
  [pc |-> "idle", room |-> "bedroom", body |-> EmptyDict, i |-> 1,
   status |-> 0, error |-> "", before |-> DEFAULT_THRESHOLDS,
   db_before |-> EmptyDict, surface |-> "", asked |-> "", served |-> "",
   updated0 |-> 0]

NoResult == [key |-> "", severity |-> "", status |-> "", message |-> NoMsg]

NoProbe == [metric |-> "none", value |-> 0, min |-> 0, max |-> 0,
            result |-> NoResult,
            low |-> 0, mid |-> 0, high |-> 0, value2 |-> 0, result2 |-> NoResult]

Init ==
  /\ thresholds = [r \in Rooms |-> DEFAULT_THRESHOLDS]
  /\ last_alert_time = [r \in Rooms |-> EmptyDict]
  /\ current_data = [r \in Rooms |->
        [tvoc |-> 0, temperature |-> 0, humidity |-> 0, eco2 |-> 0, aqi |-> 1,
         timestamp |-> 0]]
  /\ now = 0
  /\ sensor_data = [r \in Rooms |-> <<>>]
  /\ db_thresholds = [r \in Rooms |-> EmptyDict]
  /\ alert_history = <<>>
  /\ telegram = <<>>
  /\ socket_out = <<>>
  /\ m = IdleM
  /\ f = IdleF
  /\ count = [msgs |-> 0, updates |-> 0, ticks |-> 0, fails |-> 0,
              requests |-> 0, restarts |-> 0]
  /\ prev = [r \in Rooms |-> [latest |-> EmptyDict, tiers |-> {}]]
  /\ probe = NoProbe

\* ------------------------------------------------------------------- clock
\* the clock is read at line 672 (timestamp) and at line 336 (current_time)
\* of one delivery; the two reads are taken to fall in the same second, and
\* time passing anywhere else is not observed by the program
Tick(d) ==
  /\ count.ticks < MaxTicks
  /\ m.pc = "idle"
  /\ now' = now + d
  /\ count' = [count EXCEPT !.ticks = @ + 1]
  /\ UNCHANGED <<thresholds, last_alert_time, current_data, sensor_data,
                 db_thresholds, alert_history, telegram, socket_out, m, f,
                 prev, probe>>

\* --------------------------------------------------------------- on_message
UpdateCurrentKeepAqi(current, d, timestamp) ==
  [tvoc |-> d.tvoc, temperature |-> d.temperature, humidity |-> d.humidity,
   eco2 |-> d.eco2, aqi |-> current["aqi"], timestamp |-> timestamp]

\* lines 665-674: current_data.update({...}) with all five fields and the time
UpdateCurrent(current, d, timestamp) ==
  [tvoc |-> d.tvoc, temperature |-> d.temperature, humidity |-> d.humidity,
   eco2 |-> d.eco2, aqi |-> d.aqi, timestamp |-> timestamp]

\* lines 651-674: decode, pick the room, coerce, replace current data; a
\* payload that does not decode goes to the except clause with nothing stored
Receive(topic, payload) ==
  /\ m.pc = "idle"
  /\ count.msgs < MaxMsgs
  /\ LET room == IF topic = MQTT_TOPIC_BEDROOM THEN "bedroom" ELSE "workingroom"
         d == Decode(payload)
     IN IF d.ok
        THEN /\ current_data' = [current_data EXCEPT ![room] =
                                    UpdateCurrent(@, d, now)]
             /\ m' = [IdleM EXCEPT !.pc = "insert", !.room = room, !.tvoc = d.tvoc,
                                   !.temperature = d.temperature,
                                   !.humidity = d.humidity, !.eco2 = d.eco2,
                                   !.aqi = d.aqi, !.payload = payload,
                                   !.socket0 = Len(socket_out),
                                   !.rows0 = [r \in Rooms |-> Len(sensor_data[r])]]
             /\ count' = [count EXCEPT !.msgs = @ + 1]
        ELSE /\ current_data' = current_data
             /\ m' = [IdleM EXCEPT !.pc = AfterError, !.room = room,
                                   !.payload = payload, !.error = "decode",
                                   !.socket0 = Len(socket_out),
                                   !.rows0 = [r \in Rooms |-> Len(sensor_data[r])]]
             /\ count' = [count EXCEPT !.msgs = @ + 1, !.fails = @ + 1]
  /\ UNCHANGED <<thresholds, last_alert_time, now, sensor_data, db_thresholds,
                 alert_history, telegram, socket_out, f, prev, probe>>

\* line 677 (DatabaseManager.insert_sensor_data), then the call at line 680
\* up to line 339: bind the room's dicts, read the clock, empty the locals
\* ok: the INSERT commits; otherwise cursor() / execute() / commit() raises
\* (also when self.connection is None because connect() never succeeded)
Insert(ok) ==
  /\ m.pc = "insert"
  /\ sensor_data' =
        IF ok THEN [sensor_data EXCEPT ![TableOf(m.room)] =
                      Append(@, [tvoc |-> m.tvoc, temperature |-> m.temperature,
                                 humidity |-> m.humidity, eco2 |-> m.eco2,
                                 aqi |-> m.aqi])]
        ELSE sensor_data
  /\ m' = [m EXCEPT !.pc = IF ok THEN "tvoc" ELSE AfterInsertError,
                    !.current_time = now, !.alerts = <<>>,
                    !.alert_messages = <<>>, !.should_send_alert = FALSE,
                    !.telegram0 = Len(telegram), !.history0 = Len(alert_history),
                    !.cool0 = last_alert_time[m.room], !.inserted = ok,
                    !.lat0 = last_alert_time, !.attempts = @ + 1]
  /\ count' = IF ok THEN count ELSE [count EXCEPT !.fails = @ + 1]
  /\ UNCHANGED <<thresholds, last_alert_time, current_data, now, db_thresholds,
                 alert_history, telegram, socket_out, f, prev, probe>>

\* what one metric's step records about itself (not program state)
Ghost(x, c, fire, lat, pv) ==
  [key |-> c.key,
   status |-> c.status,
   outcome |-> IF ~HasMsg(c) THEN "quiet" ELSE IF fire THEN "fired" ELSE "suppressed",
   prevFired |-> (c.key \in DOMAIN pv.latest) /\ pv.latest[c.key],
   prevTime |-> IF c.key \in DOMAIN lat THEN lat[c.key] ELSE 0,
   tierFired |-> <<x, c.status>> \in pv.tiers]

NextPrev(x, c, fire) ==
  IF HasMsg(c)
  THEN [prev EXCEPT ![m.room] =
          [latest |-> Put(@.latest, c.key, fire),
           tiers |-> IF fire THEN @.tiers \cup {<<x, c.status>>} ELSE @.tiers]]
  ELSE prev

\* lines 341-381
EvalTvoc ==
  /\ m.pc = "tvoc"
  /\ LET th == thresholds[m.room]
         lat == last_alert_time[m.room]
         c == ClassifyTvoc(m.tvoc, th)
         fire == HasMsg(c) /\ CooldownElapsed(lat, c.key, m.current_time, TvocCooldown)
         alert == [type |-> c.key, value |-> m.tvoc, severity |-> c.severity,
                   level |-> TvocLevel(m.tvoc, th)]
     IN /\ last_alert_time' = [last_alert_time EXCEPT ![m.room] =
                                   RecordFire(lat, c.key, m.current_time, fire)]
        /\ m' = [m EXCEPT !.pc = "temperature",
                          !.should_send_alert = IF fire THEN TRUE ELSE @,
                          !.alert_messages = IF fire THEN Append(@, c.message) ELSE @,
                          !.alerts = IF fire THEN Append(@, alert) ELSE @,
                          !.ghost["tvoc"] = Ghost("tvoc", c, fire, lat, prev[m.room])]
        /\ prev' = NextPrev("tvoc", c, fire)
  /\ UNCHANGED <<thresholds, current_data, now, sensor_data, db_thresholds,
                 alert_history, telegram, socket_out, f, count, probe>>

\* lines 383-400 and 502-516
EvalTemperature ==
  /\ m.pc = "temperature"
  /\ LET th == thresholds[m.room]
         lat == last_alert_time[m.room]
         c == ClassifyTemperature(m.temperature, th)
         fire == HasMsg(c) /\ CooldownElapsed(lat, c.key, m.current_time, ComfortCooldown)
         alert == [type |-> c.key, value |-> m.temperature, severity |-> c.severity,
                   level |-> c.status]
     IN /\ last_alert_time' = [last_alert_time EXCEPT ![m.room] =
                                   RecordFire(lat, c.key, m.current_time, fire)]
        /\ m' = [m EXCEPT !.pc = "humidity",
                          !.should_send_alert = IF fire THEN TRUE ELSE @,
                          !.alert_messages = IF fire THEN Append(@, c.message) ELSE @,
                          !.alerts = IF fire THEN Append(@, alert) ELSE @,
                          !.ghost["temperature"] = Ghost("temperature", c, fire, lat, prev[m.room])]
        /\ prev' = NextPrev("temperature", c, fire)
  /\ UNCHANGED <<thresholds, current_data, now, sensor_data, db_thresholds,
                 alert_history, telegram, socket_out, f, count, probe>>

\* lines 518-569: the fired branch also appends a "too low" line, the other
\* branch a "too high" line, and a humidity_abnormal alert is always appended
EvalHumidity ==
  /\ m.pc = "humidity"
  /\ LET th == thresholds[m.room]
         lat == last_alert_time[m.room]
         c == ClassifyHumidity(m.humidity, th)
         fire == HasMsg(c) /\ CooldownElapsed(lat, c.key, m.current_time, ComfortCooldown)
         alert == [type |-> c.key, value |-> m.humidity, severity |-> c.severity,
                   level |-> c.status]
         abnormal == [type |-> "humidity_abnormal", value |-> m.humidity,
                      severity |-> "warning", level |-> NoLevel]
         too_low == Msg("humidity_too_low_extra", m.humidity, th["humidity_min"])
         too_high == Msg("humidity_too_high_extra", m.humidity, th["humidity_max"])
     IN /\ last_alert_time' = [last_alert_time EXCEPT ![m.room] =
                                   RecordFire(lat, c.key, m.current_time, fire)]
        /\ m' = [m EXCEPT !.pc = "eco2",
                          !.should_send_alert = IF fire THEN TRUE ELSE @,
                          !.alert_messages =
                             IF fire THEN Append(Append(@, c.message), too_low)
                             ELSE Append(@, too_high),
                          !.alerts =
                             IF fire THEN Append(Append(@, alert), abnormal)
                             ELSE Append(@, abnormal),
                          !.ghost["humidity"] = Ghost("humidity", c, fire, lat, prev[m.room])]
        /\ prev' = NextPrev("humidity", c, fire)
  /\ UNCHANGED <<thresholds, current_data, now, sensor_data, db_thresholds,
                 alert_history, telegram, socket_out, f, count, probe>>

\* lines 571-609
EvalEco2 ==
  /\ m.pc = "eco2"
  /\ LET th == thresholds[m.room]
         lat == last_alert_time[m.room]
         c == ClassifyEco2(m.eco2, th)
         fire == HasMsg(c) /\ CooldownElapsed(lat, c.key, m.current_time, ComfortCooldown)
         alert == [type |-> c.key, value |-> m.eco2, severity |-> c.severity,
                   level |-> c.status]
     IN /\ last_alert_time' = [last_alert_time EXCEPT ![m.room] =
                                   RecordFire(lat, c.key, m.current_time, fire)]
        /\ m' = [m EXCEPT !.pc = "notify",
                          !.should_send_alert = IF fire THEN TRUE ELSE @,
                          !.alert_messages = IF fire THEN Append(@, c.message) ELSE @,
                          !.alerts = IF fire THEN Append(@, alert) ELSE @,
                          !.ghost["eco2"] = Ghost("eco2", c, fire, lat, prev[m.room])]
        /\ prev' = NextPrev("eco2", c, fire)
  /\ UNCHANGED <<thresholds, current_data, now, sensor_data, db_thresholds,
                 alert_history, telegram, socket_out, f, count, probe>>

\* db.log_alert(room, "environmental_alert", message, 0, 0) for each message
LogEntries(room, messages) ==
  [k \in 1..Len(messages) |->
     [room |-> room, alert_type |-> "environmental_alert",
      message |-> messages[k], value |-> 0, threshold_value |-> 0]]

\* lines 612-636: AQI line, one combined send, one log row per buffered line
\* but the last
\* result: what the Telegram API answers; logok: do the log_alert INSERTs
\* commit (log_alert catches its own failure, lines 304-305; the store is
\* taken to be reachable for the whole loop or for none of it)
Notify(result, logok) ==
  /\ m.pc = "notify"
  /\ LET aqi == current_data[m.room]["aqi"]
         messages == Append(m.alert_messages, AqiMsg(aqi))
         dispatch == ShouldDispatch(m.should_send_alert, messages)
         failures == (IF dispatch /\ result = "failed" THEN 1 ELSE 0) +
                     (IF dispatch /\ ~logok THEN 1 ELSE 0)
     IN /\ m' = [m EXCEPT !.pc = "emit", !.alert_messages = messages,
                          !.logged = dispatch /\ logok]
        /\ IF dispatch
           THEN /\ telegram' = telegram \o
                      SendTelegramAlert(m.room, messages, result, m.current_time)
                /\ alert_history' =
                      IF logok
                      THEN alert_history \o
                           LogEntries(m.room, SubSeq(messages, 1, Len(messages) - 1))
                      ELSE alert_history
           ELSE /\ result = "sent"
                /\ logok
                /\ UNCHANGED <<telegram, alert_history>>
        /\ count' = [count EXCEPT !.fails = @ + failures]
  /\ UNCHANGED <<thresholds, last_alert_time, current_data, now, sensor_data,
                 db_thresholds, socket_out, f, prev, probe>>

\* lines 682-695
SensorDataEventNoAlerts(room, reading, timestamp, alerts) ==
  [event |-> "sensor_data", namespace |-> room, tvoc |-> reading.tvoc,
   temperature |-> reading.temperature, humidity |-> reading.humidity,
   eco2 |-> reading.eco2, aqi |-> reading.aqi, timestamp |-> timestamp,
   alerts |-> <<>>]

\* lines 683-695: the event sensor_data_<room> on the namespace /<room>
SensorDataEvent(room, reading, timestamp, alerts) ==
  [event |-> "sensor_data", namespace |-> room, tvoc |-> reading.tvoc,
   temperature |-> reading.temperature, humidity |-> reading.humidity,
   eco2 |-> reading.eco2, aqi |-> reading.aqi, timestamp |-> timestamp,
   alerts |-> alerts]

Emit ==
  /\ m.pc = "emit"
  /\ socket_out' = Append(socket_out,
        SensorDataEvent(m.room, m, current_data[m.room]["timestamp"], m.alerts))
  /\ m' = [m EXCEPT !.pc = "idle"]
  /\ UNCHANGED <<thresholds, last_alert_time, current_data, now, sensor_data,
                 db_thresholds, alert_history, telegram, f, count, prev, probe>>

\* ----------------------------------------------------------- api_thresholds
\* db.update_thresholds: the row written for a room
ThresholdRow(th) ==
  [k \in {required_keys[j] : j \in 1..Len(required_keys)} |-> th[k]]

MissingFirstOnly(body) == required_keys[1] \notin DOMAIN body

\* lines 1869-1871: some required key is not in the body
Missing(body) == \E j \in 1..Len(required_keys) : required_keys[j] \notin DOMAIN body

\* thresholds_updated events emitted so far on a room's namespace
Updated(room) ==
  Cardinality({i \in 1..Len(socket_out) :
     socket_out[i].event = "thresholds_updated" /\ socket_out[i].namespace = room})

\* lines 1854-1871 of a POST: the room's dict is bound, the body is read and
\* every required key is looked for before anything is assigned
PostBegin(room, body) ==
  /\ f.pc = "idle"
  /\ count.updates < MaxUpdates
  /\ LET missing == Missing(body)
         sel == RoomOrDefault(room)
         begun == [IdleF EXCEPT !.surface = "thresholds-post", !.asked = room,
                                !.room = sel, !.body = body,
                                !.before = thresholds[sel],
                                !.db_before = db_thresholds[sel],
                                !.updated0 = Updated(sel)]
     IN f' = IF ~ValidRoom(room)
             THEN [begun EXCEPT !.status = 400, !.error = "Invalid room"]
             ELSE IF missing
             THEN [begun EXCEPT !.status = 400, !.error = "missing"]
             ELSE [begun EXCEPT !.pc = "assign"]
  /\ count' = [count EXCEPT !.updates = @ + 1]
  /\ UNCHANGED <<thresholds, last_alert_time, current_data, now, sensor_data,
                 db_thresholds, alert_history, telegram, socket_out, m, prev,
                 probe>>

\* lines 1872-1873, one pass of the loop: thresholds[key] = float(body[key])
\* (a key that is not in the body raises KeyError: the except clause at
\* lines 1906-1908 answers 500)
PostAssign ==
  /\ f.pc = "assign"
  /\ LET key == required_keys[f.i]
     IN IF key \in DOMAIN f.body
        THEN /\ thresholds' = [thresholds EXCEPT ![f.room] = Put(@, key, f.body[key])]
             /\ f' = IF f.i = Len(required_keys) THEN [f EXCEPT !.pc = "validate"]
                     ELSE [f EXCEPT !.i = @ + 1]
        ELSE /\ thresholds' = thresholds
             /\ f' = [f EXCEPT !.pc = "idle", !.status = 500, !.error = "exception"]
  /\ UNCHANGED <<last_alert_time, current_data, now, sensor_data, db_thresholds,
                 alert_history, telegram, socket_out, m, count, prev, probe>>

\* lines 1874-1904: the three min/max checks on the dict already written,
\* then the row is saved and thresholds_updated is emitted
PostValidate ==
  /\ f.pc = "validate"
  /\ LET th == thresholds[f.room]
         error == IF th["temp_min"] > th["temp_max"] THEN "temperature"
                  ELSE IF th["humidity_min"] > th["humidity_max"] THEN "humidity"
                  ELSE IF th["eco2_min"] > th["eco2_max"] THEN "eco2"
                  ELSE ""
     IN IF error # ""
        THEN /\ f' = [f EXCEPT !.pc = "idle", !.status = 400, !.error = error]
             /\ UNCHANGED <<db_thresholds, socket_out>>
        ELSE /\ f' = [f EXCEPT !.pc = "idle", !.status = 200]
             /\ db_thresholds' = [db_thresholds EXCEPT ![f.room] = ThresholdRow(th)]
             /\ socket_out' = Append(socket_out,
                   [event |-> "thresholds_updated", namespace |-> f.room,
                    thresholds |-> th])
  /\ UNCHANGED <<thresholds, last_alert_time, current_data, now, sensor_data,
                 alert_history, telegram, m, count, prev, probe>>

\* ------------------------------------------------------- the other routes
Surfaces == {"current-data", "history", "thresholds-get", "test-alert"}

\* lines 1819-1848, 1851-1856 with 1909, and 1911-1918: a GET on one of the
\* routes that take <room>; test-alert hands one text to send_telegram_alert
Query(surface, room, result) ==
  /\ f.pc = "idle"
  /\ count.requests < MaxRequests
  /\ surface # "test-alert" => result = "sent"
  /\ IF ~ValidRoom(room)
     THEN /\ f' = [IdleF EXCEPT !.surface = surface, !.asked = room,
                                !.status = 400, !.error = "Invalid room"]
          /\ result = "sent"
          /\ telegram' = telegram
     ELSE /\ f' = [IdleF EXCEPT !.surface = surface, !.asked = room,
                                !.room = RoomOrDefault(room),
                                !.served = RoomOrDefault(room), !.status = 200]
          /\ telegram' =
                IF surface = "test-alert"
                THEN Append(telegram,
                       [room |-> room, lines |-> <<Msg("test", 0, 0)>>,
                        recommendations |-> FALSE, at |-> now, result |-> result])
                ELSE telegram
  /\ count' = [count EXCEPT !.requests = @ + 1]
  /\ UNCHANGED <<thresholds, last_alert_time, current_data, now, sensor_data,
                 db_thresholds, alert_history, socket_out, m, prev, probe>>

ConnectEventWorkingroom(room, current) ==
  [event |-> "sensor_data", namespace |-> room,
   tvoc |-> current_data["workingroom"]["tvoc"],
   temperature |-> current_data["workingroom"]["temperature"],
   humidity |-> current_data["workingroom"]["humidity"],
   eco2 |-> current_data["workingroom"]["eco2"],
   aqi |-> current_data["workingroom"]["aqi"],
   timestamp |-> current_data["workingroom"]["timestamp"],
   alerts |-> <<>>, to |-> "sid"]

\* lines 1925-1937 and 1944-1956: what a connect handler emits, to the
\* client that connected
ConnectEvent(room, current) ==
  [event |-> "sensor_data", namespace |-> room, tvoc |-> current["tvoc"],
   temperature |-> current["temperature"], humidity |-> current["humidity"],
   eco2 |-> current["eco2"], aqi |-> current["aqi"],
   timestamp |-> current["timestamp"], alerts |-> <<>>, to |-> "sid"]

\* lines 1921-1957: a client connects to the namespace of a room; the five
\* fields and the time are read in one step
Connect(room) ==
  /\ f.pc = "idle"
  /\ count.requests < MaxRequests
  /\ socket_out' = Append(socket_out, ConnectEvent(room, current_data[room]))
  /\ f' = [IdleF EXCEPT !.surface = "connect", !.asked = room, !.room = room,
                        !.served = room, !.status = 200,
                        !.i = Len(socket_out) + 1]
  /\ count' = [count EXCEPT !.requests = @ + 1]
  /\ UNCHANGED <<thresholds, last_alert_time, current_data, now, sensor_data,
                 db_thresholds, alert_history, telegram, m, prev, probe>>

\* the process is stopped and started again: lines 73-94 run anew, the
\* tables and what was already sent stay
Restart ==
  /\ count.restarts < MaxRestarts
  /\ thresholds' = [r \in Rooms |-> DEFAULT_THRESHOLDS]
  /\ last_alert_time' = [r \in Rooms |-> EmptyDict]
  /\ current_data' = [r \in Rooms |->
        [tvoc |-> 0, temperature |-> 0, humidity |-> 0, eco2 |-> 0, aqi |-> 1,
         timestamp |-> now]]
  /\ m' = IdleM
  /\ f' = IdleF
  /\ prev' = [r \in Rooms |-> [latest |-> EmptyDict, tiers |-> {}]]
  /\ count' = [count EXCEPT !.restarts = @ + 1]
  /\ UNCHANGED <<now, sensor_data, db_thresholds, alert_history, telegram,
                 socket_out, probe>>

\* ------------------------------------------------------------ specification
Next ==
  \/ \E d \in Gaps : Tick(d)
  \/ \E topic \in Topics, data \in Payloads : Receive(topic, WellFormed(data))
  \/ Insert(TRUE)
  \/ EvalTvoc
  \/ EvalTemperature
  \/ EvalHumidity
  \/ EvalEco2
  \/ Notify("sent", TRUE)
  \/ Emit
  \/ \E room \in Rooms, body \in Bodies : PostBegin(room, body)
  \/ PostAssign
  \/ PostValidate

Spec == Init /\ [][Next]_vars

\* the ingestion thread and the clock alone (lines 706-718: one client, one
\* network loop, so one on_message at a time), no threshold POST
NextEval ==
  \/ \E d \in Gaps : Tick(d)
  \/ \E topic \in Topics, data \in Payloads : Receive(topic, WellFormed(data))
  \/ Insert(TRUE)
  \/ EvalTvoc
  \/ EvalTemperature
  \/ EvalHumidity
  \/ EvalEco2
  \/ Notify("sent", TRUE)
  \/ Emit

SpecEval == Init /\ [][NextEval]_vars

\* ------------------------------------------- the classifiers on their own
ProbeThresholds(mn, mx) ==
  [DEFAULT_THRESHOLDS EXCEPT !["temp_min"] = mn, !["temp_max"] = mx,
                             !["humidity_min"] = mn, !["humidity_max"] = mx]

ProbeTemperature ==
  /\ probe = NoProbe
  /\ \E v \in 0..MaxProbe, mn \in 1..(MaxProbe - 1), mx \in 1..(MaxProbe - 1) :
        probe' = [NoProbe EXCEPT
                    !.metric = "temperature", !.value = v, !.min = mn, !.max = mx,
                    !.result = ClassifyTemperature(v, ProbeThresholds(mn, mx))]
  /\ UNCHANGED <<thresholds, last_alert_time, current_data, now, sensor_data,
                 db_thresholds, alert_history, telegram, socket_out, m, f,
                 count, prev>>

ProbeHumidity ==
  /\ probe = NoProbe
  /\ \E v \in 0..MaxProbe, mn \in 1..(MaxProbe - 1), mx \in 1..(MaxProbe - 1) :
        probe' = [NoProbe EXCEPT
                    !.metric = "humidity", !.value = v, !.min = mn, !.max = mx,
                    !.result = ClassifyHumidity(v, ProbeThresholds(mn, mx))]
  /\ UNCHANGED <<thresholds, last_alert_time, current_data, now, sensor_data,
                 db_thresholds, alert_history, telegram, socket_out, m, f,
                 count, prev>>

\* ingestion while the store and the Telegram API may fail and payloads may
\* be malformed
NextFail ==
  \/ Tick(TvocCooldown)
  \/ \E topic \in Topics, payload \in FailPayloads : Receive(topic, payload)
  \/ \E ok \in BOOLEAN : Insert(ok)
  \/ EvalTvoc
  \/ EvalTemperature
  \/ EvalHumidity
  \/ EvalEco2
  \/ \E result \in DeliveryResults, logok \in BOOLEAN : Notify(result, logok)
  \/ Emit

\* the steps of on_message after the payload is decoded
Handler ==
  \/ \E ok \in BOOLEAN : Insert(ok)
  \/ EvalTvoc
  \/ EvalTemperature
  \/ EvalHumidity
  \/ EvalEco2
  \/ \E result \in DeliveryResults, logok \in BOOLEAN : Notify(result, logok)
  \/ Emit

\* the paho thread keeps running the callback it has entered: every call in
\* it returns or raises (requests.post has timeout=10)
SpecFail == Init /\ [][NextFail]_vars /\ WF_vars(Handler)

\* the steps of on_message when the store and the Telegram API answer
HandlerEval ==
  \/ Insert(TRUE)
  \/ EvalTvoc
  \/ EvalTemperature
  \/ EvalHumidity
  \/ EvalEco2
  \/ Notify("sent", TRUE)
  \/ Emit

\* readings that arrive whole days apart
NextRecur ==
  \/ Tick(SecondsPerDay)
  \/ \E topic \in Topics, data \in Payloads : Receive(topic, WellFormed(data))
  \/ Insert(TRUE)
  \/ EvalTvoc
  \/ EvalTemperature
  \/ EvalHumidity
  \/ EvalEco2
  \/ Notify("sent", TRUE)
  \/ Emit

\* the sensors keep publishing and the clock keeps running, and the paho
\* thread finishes every callback it has entered
SpecRecur ==
  /\ Init
  /\ [][NextRecur]_vars
  /\ WF_vars(HandlerEval)
  /\ WF_vars(\E topic \in Topics, data \in Payloads : Receive(topic, WellFormed(data)))
  /\ WF_vars(Tick(SecondsPerDay))

\* ingestion of payloads that lack one field
NextDecode ==
  \/ \E topic \in Topics, data \in MissingOne : Receive(topic, WellFormed(data))
  \/ Insert(TRUE)
  \/ EvalTvoc
  \/ EvalTemperature
  \/ EvalHumidity
  \/ EvalEco2
  \/ Notify("sent", TRUE)
  \/ Emit

SpecDecode == Init /\ [][NextDecode]_vars

\* readings delivered while clients connect
ServePayloads ==
  { [tvoc |-> 700, temperature |-> 25, humidity |-> 50, eco2 |-> 500, aqi |-> 3],
    [TVOC |-> 300, Temperature |-> 10, Humidity |-> 80, eCO2 |-> 2500, AQI |-> 5] }

NextServe ==
  \/ \E topic \in Topics, data \in ServePayloads : Receive(topic, WellFormed(data))
  \/ Insert(TRUE)
  \/ EvalTvoc
  \/ EvalTemperature
  \/ EvalHumidity
  \/ EvalEco2
  \/ Notify("sent", TRUE)
  \/ Emit
  \/ \E room \in Rooms : Connect(room)

\* ingestion, and socket clients connecting at any moment
SpecServe == Init /\ [][NextServe]_vars

NextConfig ==
  \/ \E room \in RequestRooms, body \in Bodies : PostBegin(room, body)
  \/ PostAssign
  \/ PostValidate
  \/ \E surface \in Surfaces, room \in RequestRooms, result \in DeliveryResults :
        Query(surface, room, result)
  \/ Restart

\* the HTTP routes that take a room, and restarts
SpecConfig == Init /\ [][NextConfig]_vars

\* updates whose tvoc_max and eco2_max lie below the default cut points of
\* the two ladders, and one that lowers only the comfort bounds
ApplyBodies ==
  { [tvoc_max |-> 100, temp_min |-> 20, temp_max |-> 24, humidity_min |-> 40,
     humidity_max |-> 49, eco2_min |-> 450, eco2_max |-> 800],
    [tvoc_max |-> 660, temp_min |-> 18, temp_max |-> 24, humidity_min |-> 30,
     humidity_max |-> 70, eco2_min |-> 400, eco2_max |-> 2000] }

\* readings between the default cut points, quiet under the defaults, and one
\* that breaches tvoc_high
ApplyPayloads ==
  { [tvoc |-> 150, temperature |-> 22, humidity |-> 45, eco2 |-> 500, aqi |-> 2],
    [tvoc |-> 50, temperature |-> 22, humidity |-> 45, eco2 |-> 900, aqi |-> 2],
    [tvoc |-> 50, temperature |-> 25, humidity |-> 50, eco2 |-> 500, aqi |-> 1],
    [tvoc |-> 700, temperature |-> 22, humidity |-> 45, eco2 |-> 500, aqi |-> 3] }

NextApply ==
  \/ \E topic \in Topics, data \in ApplyPayloads : Receive(topic, WellFormed(data))
  \/ Insert(TRUE)
  \/ EvalTvoc
  \/ EvalTemperature
  \/ EvalHumidity
  \/ EvalEco2
  \/ Notify("sent", TRUE)
  \/ Emit
  \/ \E room \in Rooms, body \in ApplyBodies : PostBegin(room, body)
  \/ PostAssign
  \/ PostValidate

\* threshold updates that pass validation, and the readings around them
SpecApply == Init /\ [][NextApply]_vars

\* both rooms fed and updated side by side: a reading that breaches under the
\* defaults, one that breaches only under the updated comfort bounds
RoomPayloads == {data \in ApplyPayloads : data.tvoc = 700 \/ data.temperature = 25}

RoomBodies == {body \in ApplyBodies : body.tvoc_max = 100}

NextRooms ==
  \/ \E topic \in Topics, data \in RoomPayloads : Receive(topic, WellFormed(data))
  \/ Insert(TRUE)
  \/ EvalTvoc
  \/ EvalTemperature
  \/ EvalHumidity
  \/ EvalEco2
  \/ Notify("sent", TRUE)
  \/ Emit
  \/ \E room \in Rooms, body \in RoomBodies : PostBegin(room, body)
  \/ PostAssign
  \/ PostValidate

SpecRooms == Init /\ [][NextRooms]_vars

\* quiet and breaching readings with every aqi value, and values outside 1..5
AqiPayloads ==
  { [tvoc |-> t, temperature |-> 25, humidity |-> 50, eco2 |-> 500, aqi |-> a] :
      t \in {50, 700}, a \in 0..6 }

NextAqi ==
  \/ \E topic \in Topics, data \in AqiPayloads : Receive(topic, WellFormed(data))
  \/ Insert(TRUE)
  \/ EvalTvoc
  \/ EvalTemperature
  \/ EvalHumidity
  \/ EvalEco2
  \/ Notify("sent", TRUE)
  \/ Emit

SpecAqi == Init /\ [][NextAqi]_vars

\* cut points of the two tiered metrics, in any order
TieredThresholds(low, mid, high) ==
  [DEFAULT_THRESHOLDS EXCEPT !["tvoc_good"] = low, !["tvoc_normal"] = mid,
                             !["tvoc_high"] = high, !["eco2_min"] = low,
                             !["eco2_normal"] = mid, !["eco2_high"] = high]

\* two values v <= v2 classified against the same cut points
ProbeTvoc ==
  /\ probe = NoProbe
  /\ \E v \in 0..MaxProbe, v2 \in 0..MaxProbe, low \in 1..(MaxProbe - 1),
        mid \in 1..(MaxProbe - 1), high \in 1..(MaxProbe - 1) :
        /\ v <= v2
        /\ probe' = [NoProbe EXCEPT
               !.metric = "tvoc", !.value = v, !.value2 = v2,
               !.low = low, !.mid = mid, !.high = high,
               !.result = ClassifyTvoc(v, TieredThresholds(low, mid, high)),
               !.result2 = ClassifyTvoc(v2, TieredThresholds(low, mid, high))]
  /\ UNCHANGED <<thresholds, last_alert_time, current_data, now, sensor_data,
                 db_thresholds, alert_history, telegram, socket_out, m, f,
                 count, prev>>

ProbeEco2 ==
  /\ probe = NoProbe
  /\ \E v \in 0..MaxProbe, v2 \in 0..MaxProbe, low \in 1..(MaxProbe - 1),
        mid \in 1..(MaxProbe - 1), high \in 1..(MaxProbe - 1) :
        /\ v <= v2
        /\ probe' = [NoProbe EXCEPT
               !.metric = "eco2", !.value = v, !.value2 = v2,
               !.low = low, !.mid = mid, !.high = high,
               !.result = ClassifyEco2(v, TieredThresholds(low, mid, high)),
               !.result2 = ClassifyEco2(v2, TieredThresholds(low, mid, high))]
  /\ UNCHANGED <<thresholds, last_alert_time, current_data, now, sensor_data,
                 db_thresholds, alert_history, telegram, socket_out, m, f,
                 count, prev>>

NextClassify == ProbeTemperature \/ ProbeHumidity \/ ProbeTvoc \/ ProbeEco2

SpecClassify == Init /\ [][NextClassify]_vars

\* ================================================================== claims
\* the evaluation of the reading in m has returned its alert list
Returned == m.pc \in {"emit", "idle"} /\ m.ghost["eco2"].outcome # "pending"

Fired(x) == m.ghost[x].outcome = "fired"
Suppressed(x) == m.ghost[x].outcome = "suppressed"
Quiet(x) == m.ghost[x].outcome = "quiet"

CooldownOf(x) == IF x = "tvoc" THEN TvocCooldown ELSE ComfortCooldown

AlertKeys == {"tvoc_too_high", "tvoc_high", "temp_high", "temp_low",
              "humidity_high", "humidity_low", "eco2_too_high", "eco2_high",
              "eco2_low"}

\* notifications and log rows this evaluation has produced
SentByEval == SubSeq(telegram, m.telegram0 + 1, Len(telegram))
LoggedByEval == SubSeq(alert_history, m.history0 + 1, Len(alert_history))

Tags(lines) == [k \in 1..Len(lines) |-> lines[k].tag]

\* the keys that fired, in the order tvoc, temperature, humidity, eco2
FiredKeys ==
  (IF Fired("tvoc") THEN <<m.ghost["tvoc"].key>> ELSE <<>>) \o
  (IF Fired("temperature") THEN <<m.ghost["temperature"].key>> ELSE <<>>) \o
  (IF Fired("humidity") THEN <<m.ghost["humidity"].key>> ELSE <<>>) \o
  (IF Fired("eco2") THEN <<m.ghost["eco2"].key>> ELSE <<>>)

\* C1: when the previous evaluation that classified to an alert key fired it
\* at t0 and this evaluation classifies to the same key at t1 >= t0, the key
\* is suppressed if t1 - t0 <= D and fires if t1 - t0 > D (D = 300 s for
\* tvoc, 600 s for temperature, humidity and eco2), whatever t1 - t0 is.
C1_CooldownByElapsedTime ==
  \A x \in Metrics :
    LET g == m.ghost[x]
        elapsed == m.current_time - g.prevTime
    IN (g.outcome \in {"fired", "suppressed"} /\ g.prevFired /\ elapsed >= 0)
         => /\ (elapsed <= CooldownOf(x) => g.outcome = "suppressed")
            /\ (elapsed > CooldownOf(x) => g.outcome = "fired")

MinOverMax(body) ==
  /\ \A j \in 1..Len(required_keys) : required_keys[j] \in DOMAIN body
  /\ \/ body["temp_min"] > body["temp_max"]
     \/ body["humidity_min"] > body["humidity_max"]
     \/ body["eco2_min"] > body["eco2_max"]

\* the POST in f has been answered
Answered == f.pc = "idle" /\ f.status # 0

\* C3: a threshold update with a min above its paired max is rejected with a
\* validation error and leaves the room's in-memory and persisted threshold
\* sets exactly as they were before the request.
C3_RejectedUpdateChangesNothing ==
  (Answered /\ MinOverMax(f.body)) =>
    /\ f.status = 400
    /\ thresholds[f.room] = f.before
    /\ db_thresholds[f.room] = f.db_before

\* C4: whenever no update is in progress, every room's threshold set has
\* temp_min <= temp_max, humidity_min <= humidity_max and, when eco2_max is
\* present, eco2_min <= eco2_max.
C4_MinNotAboveMax ==
  f.pc = "idle" =>
    \A r \in Rooms :
      LET th == thresholds[r]
      IN /\ th["temp_min"] <= th["temp_max"]
         /\ th["humidity_min"] <= th["humidity_max"]
         /\ ("eco2_max" \in DOMAIN th => th["eco2_min"] <= th["eco2_max"])

\* C5: one evaluation sends at most one notification, and sends one exactly
\* when at least one metric fired in it.
C5_OneCombinedNotification ==
  Returned =>
    /\ Len(SentByEval) <= 1
    /\ (Len(SentByEval) = 1 <=> \E x \in Metrics : Fired(x))

\* an evaluation in which several metrics fired and one notification went out
C5_Witness ==
  /\ Returned
  /\ Cardinality({x \in Metrics : Fired(x)}) >= 2
  /\ Len(SentByEval) = 1

\* C6: a reading whose every metric is in a no-message tier yields an empty
\* alert list, no notification, no alert-log row and an unchanged cooldown
\* map.
C6_QuietReadingLeavesNoTrace ==
  (Returned /\ \A x \in Metrics : Quiet(x)) =>
    /\ m.alerts = <<>>
    /\ SentByEval = <<>>
    /\ LoggedByEval = <<>>
    /\ last_alert_time[m.room] = m.cool0

\* C7: a metric that breaches inside its cooldown window has no entry in the
\* returned alert list and no line in the notification buffer.
C7_SuppressedIsInvisible ==
  Returned =>
    \A x \in Metrics :
      Suppressed(x) =>
        /\ \A k \in 1..Len(m.alerts) : MetricOf(m.alerts[k].type) # x
        /\ \A k \in 1..Len(m.alert_messages) : MetricOf(m.alert_messages[k].tag) # x

\* C8: a dispatched notification consists of exactly the messages of the
\* metrics that fired, in the order tvoc, temperature, humidity, eco2, then
\* one AQI line and the recommendation suffix.
C8_NotificationText ==
  (Returned /\ SentByEval # <<>>) =>
    /\ Tags(SentByEval[1].lines) = FiredKeys \o <<"aqi">>
    /\ SentByEval[1].recommendations

\* C9: an evaluation that dispatches a notification appends one alert-log row
\* per metric that fired and none for the AQI line; one that dispatches
\* nothing appends none.
C9_OneLogRowPerFiredMetric ==
  Returned =>
    IF SentByEval # <<>>
    THEN Tags([k \in 1..Len(LoggedByEval) |-> LoggedByEval[k].message]) = FiredKeys
    ELSE LoggedByEval = <<>>

\* C10: for temperature and humidity, with min <= max: normal (success, no
\* message) iff min <= value <= max, low (warning, message) iff value < min,
\* high (warning, message) iff value > max.
C10_TwoSided ==
  (probe.metric \in {"temperature", "humidity"} /\ probe.min <= probe.max) =>
    LET r == probe.result
        v == probe.value
    IN /\ (r.status = "normal") <=> (probe.min <= v /\ v <= probe.max)
       /\ (r.status = "low") <=> (v < probe.min)
       /\ (r.status = "high") <=> (v > probe.max)
       /\ r.status \in {"normal", "low", "high"}
       /\ r.status = "normal" => (r.severity = "success" /\ r.message = NoMsg)
       /\ r.status \in {"low", "high"} => (r.severity = "warning" /\ r.message # NoMsg)

\* a value sitting exactly on max, and one exactly on min, classified normal
C10_Witness ==
  /\ probe.metric \in {"temperature", "humidity"}
  /\ probe.min < probe.max
  /\ probe.value \in {probe.min, probe.max}
  /\ probe.result.status = "normal"

\* ------------------------------------------------------ tiered classifiers
Ordered == probe.low < probe.mid /\ probe.mid < probe.high

TierIs(r, status, severity, message) ==
  /\ r.status = status
  /\ r.severity = severity
  /\ HasMsg(r) = message

\* C11 as stated: tvoc and eco2 both run too_high / high / normal (info) /
\* good (success) down the cuts with strictly-greater comparisons, so a
\* value at or below the lowest cut carries no message.
C11_TieredAsStated ==
  (probe.metric \in {"tvoc", "eco2"} /\ Ordered) =>
    LET r == probe.result
        v == probe.value
    IN IF v > probe.high THEN TierIs(r, "too_high", "danger", TRUE)
       ELSE IF v > probe.mid THEN TierIs(r, "high", "warning", TRUE)
       ELSE IF v > probe.low THEN TierIs(r, "normal", "info", FALSE)
       ELSE TierIs(r, "good", "success", FALSE)

\* C11: with cuts low < mid < high, tvoc is too_high (danger, message) above
\* high, else high (warning, message) above mid, else normal (info, no
\* message) above low, else good (success, no message); eco2 is too_high
\* (danger, message) above high, else high (warning, message) above mid, else
\* normal (success, no message) at or above low, else low (warning, with a
\* message under the key eco2_low).
C11_Tiered ==
  (probe.metric \in {"tvoc", "eco2"} /\ Ordered) =>
    LET r == probe.result
        v == probe.value
    IN IF v > probe.high THEN TierIs(r, "too_high", "danger", TRUE)
       ELSE IF v > probe.mid THEN TierIs(r, "high", "warning", TRUE)
       ELSE IF probe.metric = "tvoc"
       THEN IF v > probe.low THEN TierIs(r, "normal", "info", FALSE)
            ELSE TierIs(r, "good", "success", FALSE)
       ELSE IF v >= probe.low THEN TierIs(r, "normal", "success", FALSE)
            ELSE TierIs(r, "low", "warning", TRUE) /\ r.key = "eco2_low"

\* an eco2 value under the lowest cut, classified low with a message
C11_Witness ==
  /\ probe.metric = "eco2"
  /\ Ordered
  /\ probe.value < probe.low
  /\ probe.result.status = "low"
  /\ HasMsg(probe.result)

SeverityRank(severity) ==
  IF severity = "success" THEN 0
  ELSE IF severity = "info" THEN 1
  ELSE IF severity = "warning" THEN 2
  ELSE 3

\* C12 as stated: for tvoc and eco2 and values v1 <= v2 the severity rank of
\* v1 is not above that of v2, and equal values get equal tiers.
C12_MonotoneAsStated ==
  (probe.metric \in {"tvoc", "eco2"} /\ Ordered) =>
    /\ SeverityRank(probe.result.severity) <= SeverityRank(probe.result2.severity)
    /\ probe.value = probe.value2 => probe.result.status = probe.result2.status

\* C12: for values v1 <= v2 against cuts low < mid < high, the severity rank
\* (success < info < warning < danger) of v1 is not above that of v2 for
\* tvoc, and for eco2 when v1 is at or above eco2_min; equal values get
\* equal tiers.
C12_Monotone ==
  (probe.metric \in {"tvoc", "eco2"} /\ Ordered) =>
    /\ (probe.metric = "tvoc" \/ probe.value >= probe.low) =>
         SeverityRank(probe.result.severity) <= SeverityRank(probe.result2.severity)
    /\ probe.value = probe.value2 => probe.result.status = probe.result2.status

\* a tvoc pair running from the lowest tier to the highest
C12_Witness ==
  /\ probe.metric = "tvoc"
  /\ Ordered
  /\ probe.value <= probe.low
  /\ probe.value2 > probe.high
  /\ probe.result.severity = "success"
  /\ probe.result2.severity = "danger"

\* C13 as stated: every comparison is strict, so a value equal to a cut
\* point of an ascending tier is in the tier under that cut (for eco2_min:
\* low), and a value equal to min or max of a two-sided metric is normal.
C13_StrictAsStated ==
  /\ (probe.metric \in {"tvoc", "eco2"} /\ Ordered) =>
       /\ probe.value = probe.high => probe.result.status = "high"
       /\ probe.value = probe.mid => probe.result.status = "normal"
       /\ probe.value = probe.low =>
            probe.result.status = (IF probe.metric = "tvoc" THEN "good" ELSE "low")
  /\ (probe.metric \in {"temperature", "humidity"} /\ probe.min <= probe.max) =>
       (probe.value \in {probe.min, probe.max} => probe.result.status = "normal")

\* C13: a value equal to a cut point gets the less severe of the two tiers
\* that meet there: good at tvoc_good, normal at tvoc_normal, high at
\* tvoc_high, normal at eco2_min (whose comparison is >=) and at
\* eco2_normal, high at eco2_high, normal at min and at max of temperature
\* and humidity; the same value always gets the same tier.
C13_TiesToLowerSeverity ==
  /\ (probe.metric \in {"tvoc", "eco2"} /\ Ordered) =>
       /\ probe.value = probe.high => probe.result.status = "high"
       /\ probe.value = probe.mid => probe.result.status = "normal"
       /\ probe.value = probe.low =>
            probe.result.status = (IF probe.metric = "tvoc" THEN "good" ELSE "normal")
       /\ probe.value = probe.value2 => probe.result = probe.result2
  /\ (probe.metric \in {"temperature", "humidity"} /\ probe.min <= probe.max) =>
       (probe.value \in {probe.min, probe.max} => probe.result.status = "normal")

\* an eco2 value sitting on eco2_min, and a tvoc value sitting on tvoc_high
C13_Witness ==
  /\ Ordered
  /\ \/ probe.metric = "eco2" /\ probe.value = probe.low
        /\ probe.result.status = "normal"
     \/ probe.metric = "tvoc" /\ probe.value = probe.high
        /\ probe.result.status = "high"

\* ------------------------------------------------------------ cooldown map
FiredKeySet == {m.ghost[x].key : x \in {y \in Metrics : Fired(y)}}

\* C14: when an evaluation returns, the room's cooldown map is the map the
\* evaluation started from with the entry of every key that fired set to the
\* evaluation time and nothing else changed: a quiet or suppressed metric
\* writes no entry, and the other room's map is untouched.
C14_CooldownSetIffFired ==
  Returned =>
    LET before == m.lat0[m.room]
        after == last_alert_time[m.room]
    IN /\ DOMAIN after = DOMAIN before \cup FiredKeySet
       /\ \A k \in DOMAIN after :
            after[k] = IF k \in FiredKeySet THEN m.current_time ELSE before[k]
       /\ \A r \in Rooms \ {m.room} : last_alert_time[r] = m.lat0[r]

\* one evaluation with a fired, a suppressed and a quiet metric, run later
\* than the entry the suppressed one keeps
C14_Witness ==
  /\ Returned
  /\ \E x \in Metrics : Fired(x)
  /\ \E x \in Metrics : Quiet(x)
  /\ \E x \in Metrics :
       /\ Suppressed(x)
       /\ last_alert_time[m.room][m.ghost[x].key] < m.current_time

\* C15: cooldown keys are per (room, metric, tier): a metric that carries a
\* message is suppressed only if that same tier of that metric has fired in
\* that room before; a tier that has not fired there fires at once, also
\* inside the window another tier of the metric opened.
C15_KeyPerTier ==
  \A x \in Metrics :
    m.ghost[x].outcome \in {"fired", "suppressed"} =>
      (~m.ghost[x].tierFired => Fired(x))

\* temperature fires low while the entry of temp_high is still inside its
\* window, and tvoc fires too_high inside the window of tvoc_high
C15_Witness ==
  /\ Returned
  /\ Fired("temperature")
  /\ m.ghost["temperature"].status = "low"
  /\ "temp_high" \in DOMAIN m.lat0[m.room]
  /\ m.current_time - m.lat0[m.room]["temp_high"] <= ComfortCooldown
  /\ Fired("tvoc")
  /\ m.ghost["tvoc"].status = "too_high"
  /\ "tvoc_high" \in DOMAIN m.lat0[m.room]
  /\ m.current_time - m.lat0[m.room]["tvoc_high"] <= TvocCooldown

\* ----------------------------------------------------- failing collaborators
\* on_message has returned from a payload that decoded
Handled == m.pc = "idle" /\ count.msgs > 0 /\ m.error = ""

Reading == [tvoc |-> m.tvoc, temperature |-> m.temperature,
            humidity |-> m.humidity, eco2 |-> m.eco2, aqi |-> m.aqi]

StoredAsCurrent ==
  /\ current_data[m.room]["tvoc"] = m.tvoc
  /\ current_data[m.room]["temperature"] = m.temperature
  /\ current_data[m.room]["humidity"] = m.humidity
  /\ current_data[m.room]["eco2"] = m.eco2
  /\ current_data[m.room]["aqi"] = m.aqi

\* exactly one sensor_data event went out for this reading, with its alerts
Broadcast ==
  /\ Len(socket_out) = m.socket0 + 1
  /\ LET e == socket_out[Len(socket_out)]
     IN /\ e.event = "sensor_data"
        /\ e.namespace = m.room
        /\ e.tvoc = m.tvoc /\ e.temperature = m.temperature
        /\ e.humidity = m.humidity /\ e.eco2 = m.eco2 /\ e.aqi = m.aqi
        /\ e.alerts = m.alerts

Persisted ==
  /\ Len(sensor_data[m.room]) > 0
  /\ sensor_data[m.room][Len(sensor_data[m.room])] = Reading

SendFailed == Len(SentByEval) > 0 /\ SentByEval[1].result = "failed"

\* a send for the room at time t failed
FailedAt(room, t) ==
  \E i \in 1..Len(telegram) :
    telegram[i].room = room /\ telegram[i].at = t /\ telegram[i].result = "failed"

\* C16: a send that fails is made once and changes nothing else: the fired
\* keys keep their cooldown entries at the evaluation time, every fired
\* metric's alert is returned and, once on_message has returned, broadcast;
\* and a metric whose key last fired with a failed send, evaluated again no
\* more than the cooldown later, is suppressed.
C16_FailedSendKeepsState ==
  /\ (Returned /\ SendFailed) =>
       /\ Len(SentByEval) = 1
       /\ \A k \in FiredKeySet : last_alert_time[m.room][k] = m.current_time
       /\ \A k \in FiredKeySet : \E i \in 1..Len(m.alerts) : m.alerts[i].type = k
       /\ m.pc = "idle" => Broadcast
  /\ \A x \in Metrics :
       LET g == m.ghost[x]
           before == m.lat0[m.room]
       IN (/\ g.outcome \in {"fired", "suppressed"}
           /\ g.key \in DOMAIN before
           /\ m.current_time - before[g.key] <= CooldownOf(x)
           /\ FailedAt(m.room, before[g.key]))
          => Suppressed(x)

\* the second of two breaching readings, five minutes after the first whose
\* send failed, is suppressed and broadcast without alerts
C16_Witness ==
  /\ Handled
  /\ Suppressed("tvoc")
  /\ m.current_time > m.lat0[m.room]["tvoc_too_high"]
  /\ FailedAt(m.room, m.lat0[m.room]["tvoc_too_high"])
  /\ Len(SentByEval) = 0
  /\ Broadcast

LogFailed == m.should_send_alert /\ ~m.logged

\* C17: when the insert of the reading or the log writes of its alerts
\* fail, on_message still returns with the reading stored as current, the
\* evaluation run (fired keys hold the evaluation time) and the reading
\* broadcast with its alerts; a failed insert adds no row, failed log writes
\* add no log row.
C17_PersistenceFailureTolerated ==
  (m.pc = "idle" /\ count.msgs > 0 /\ m.payload \notin Malformed
   /\ (~m.inserted \/ LogFailed)) =>
    /\ Returned
    /\ StoredAsCurrent
    /\ \A k \in FiredKeySet : last_alert_time[m.room][k] = m.current_time
    /\ Broadcast
    /\ LogFailed => Len(LoggedByEval) = 0

\* a breaching reading whose insert and log writes both failed
C17_Witness ==
  /\ Handled
  /\ ~m.inserted
  /\ LogFailed
  /\ Fired("tvoc")
  /\ Len(sensor_data[m.room]) = 0
  /\ Broadcast

\* ------------------------------------------------------------------- decode
FieldKeys == [tvoc |-> <<"tvoc", "TVOC">>,
              temperature |-> <<"temperature", "Temperature">>,
              humidity |-> <<"humidity", "Humidity">>,
              eco2 |-> <<"eco2", "eCO2">>,
              aqi |-> <<"aqi", "AQI">>]

FieldDefault(field) == IF field = "aqi" THEN 1 ELSE 0

\* the value of a field in a payload that spells it at most one way
Expected(data, field) ==
  LET present == {FieldKeys[field][1], FieldKeys[field][2]} \cap DOMAIN data
  IN IF present = {} THEN FieldDefault(field)
     ELSE data[CHOOSE k \in present : TRUE]

\* C18: a payload that lacks one field is ingested: the field takes its
\* default (0, or 1 for aqi), the others the values sent under either
\* spelling, and the reading is stored as current, persisted, evaluated and
\* broadcast.
C18_MissingFieldDefaults ==
  (m.pc = "idle" /\ count.msgs > 0 /\ m.payload.data \in MissingOne) =>
    /\ m.error = ""
    /\ \A field \in DOMAIN FieldKeys :
         Reading[field] = Expected(m.payload.data, field)
    /\ StoredAsCurrent
    /\ Persisted
    /\ Returned
    /\ Broadcast

\* a capitalised payload without Temperature, and a lowercase one without
\* aqi before it
C18_Witness ==
  /\ Handled
  /\ DOMAIN m.payload.data = {"TVOC", "Humidity", "eCO2", "AQI"}
  /\ m.temperature = 0
  /\ m.tvoc = 300
  /\ Broadcast
  /\ \E r \in Rooms : \E i \in 1..Len(sensor_data[r]) :
       sensor_data[r][i].aqi = 1 /\ sensor_data[r][i].tvoc = 700

\* C19 as stated: after a payload that does not decode, the reading with
\* defaults in place of the bad fields is current, persisted and broadcast.
C19_DefaultSubstitution ==
  (m.pc = "idle" /\ count.msgs > 0 /\ m.payload \in Malformed) =>
    LET d == DecodeWithDefaults(m.payload)
    IN /\ current_data[m.room]["tvoc"] = d.tvoc
       /\ current_data[m.room]["temperature"] = d.temperature
       /\ current_data[m.room]["humidity"] = d.humidity
       /\ current_data[m.room]["eco2"] = d.eco2
       /\ current_data[m.room]["aqi"] = d.aqi
       /\ Len(sensor_data[m.room]) > 0
       /\ Len(socket_out) = m.socket0 + 1

\* C19: the delivery of a payload that does not decode (not JSON, or a field
\* whose text is not a number) is dropped whole: on_message returns with the
\* error logged, the current readings, the stored rows, the cooldown maps,
\* the notifications, the log and the broadcasts all as they were.
C19_DecodeErrorDropsMessage ==
  [][(count'.msgs = count.msgs + 1 /\ m'.payload \in Malformed) =>
       /\ m'.pc = "idle"
       /\ m'.error = "decode"
       /\ current_data' = current_data
       /\ sensor_data' = sensor_data
       /\ last_alert_time' = last_alert_time
       /\ telegram' = telegram
       /\ alert_history' = alert_history
       /\ socket_out' = socket_out]_vars

\* a malformed payload dropped after a reading of the same room was stored
C19_Witness ==
  /\ m.pc = "idle"
  /\ m.error = "decode"
  /\ m.payload \in Malformed
  /\ Len(socket_out) = 1
  /\ socket_out[1].namespace = m.room
  /\ current_data[m.room]["tvoc"] = socket_out[1].tvoc
  /\ Len(sensor_data[m.room]) = 1

\* this reading met no failure of its own
Unfailed ==
  /\ m.inserted
  /\ m.should_send_alert => (m.logged /\ Len(SentByEval) = 1
                              /\ SentByEval[1].result = "sent")

\* C20: whatever failed before, on_message returns from every delivery, and
\* a well-formed reading it has returned from is stored as current,
\* evaluated and broadcast, and persisted when its own insert committed.
C20_IngestionSurvives ==
  /\ []((m.pc = "idle" /\ count.msgs > 0 /\ m.payload \notin Malformed) =>
          /\ Returned
          /\ StoredAsCurrent
          /\ Broadcast
          /\ m.inserted => Persisted)
  /\ ((m.pc # "idle") ~> (m.pc = "idle"))

\* a reading handled cleanly after an earlier delivery failed
C20_Witness ==
  /\ Handled
  /\ Unfailed
  /\ Persisted
  /\ Broadcast
  /\ count.fails > 0

\* --------------------------------------------------------- ingestion pipeline
ReadingFields == {"tvoc", "temperature", "humidity", "eco2", "aqi"}

Fields(r) == [k \in ReadingFields |-> r[k]]

\* a payload was decoded by the delivery on_message is in or has returned from
Decoded == count.msgs > 0 /\ m.error = ""

\* the most recent reading decoded for a room, from the deliveries and the
\* rows they inserted
LastKnown(room) ==
  IF Decoded /\ m.pc = "insert" /\ m.room = room THEN Fields(m)
  ELSE IF Len(sensor_data[room]) > 0
       THEN Fields(sensor_data[room][Len(sensor_data[room])])
       ELSE [tvoc |-> 0, temperature |-> 0, humidity |-> 0, eco2 |-> 0, aqi |-> 1]

\* C21: each room's current-value state holds exactly the five fields of the
\* most recent reading decoded for that room (and its time), nothing of any
\* earlier reading.
C21_LastWriteWins ==
  \A r \in Rooms :
    /\ DOMAIN current_data[r] = ReadingFields \cup {"timestamp"}
    /\ Fields(current_data[r]) = LastKnown(r)

\* two different readings of the bedroom in a row; the second is current
C21_Witness ==
  /\ Len(sensor_data["bedroom"]) = 2
  /\ sensor_data["bedroom"][1] # sensor_data["bedroom"][2]
  /\ sensor_data["bedroom"][1].aqi # sensor_data["bedroom"][2].aqi
  /\ Fields(current_data["bedroom"]) = Fields(sensor_data["bedroom"][2])

\* C22: a decoded reading gets one insert attempt, into the table of its own
\* room, before its evaluation starts and whatever the evaluation does; a
\* payload that does not decode gets none.
C22_OneInsertAttempt ==
  /\ Decoded =>
       /\ m.attempts = (IF m.pc = "insert" THEN 0 ELSE 1)
       /\ \A r \in Rooms :
            Len(sensor_data[r]) =
              m.rows0[r] + (IF r = m.room /\ m.inserted THEN 1 ELSE 0)
       /\ m.inserted => Fields(sensor_data[m.room][Len(sensor_data[m.room])]) = Fields(m)
       /\ m.ghost["tvoc"].outcome # "pending" => m.attempts = 1
  /\ (count.msgs > 0 /\ m.error = "decode") =>
       /\ m.attempts = 0
       /\ \A r \in Rooms : Len(sensor_data[r]) = m.rows0[r]

\* a workingroom reading whose alert was suppressed, inserted all the same
C22_Witness ==
  /\ Handled
  /\ m.room = "workingroom"
  /\ Suppressed("tvoc")
  /\ m.attempts = 1
  /\ m.inserted
  /\ Len(sensor_data["workingroom"]) = 2

\* C23: a decoded reading is broadcast once, when its evaluation has
\* returned and not before, on the namespace of its own room, with its five
\* values and the alert list the evaluation returned.
C23_BroadcastOnce ==
  Decoded =>
    /\ m.pc # "idle" => Len(socket_out) = m.socket0
    /\ m.pc = "idle" =>
         /\ Returned
         /\ Len(socket_out) = m.socket0 + 1
         /\ socket_out[Len(socket_out)] =
              [event |-> "sensor_data", namespace |-> m.room, tvoc |-> m.tvoc,
               temperature |-> m.temperature, humidity |-> m.humidity,
               eco2 |-> m.eco2, aqi |-> m.aqi,
               timestamp |-> current_data[m.room]["timestamp"],
               alerts |-> m.alerts]

\* a workingroom reading broadcast with its alerts after a bedroom one
C23_Witness ==
  /\ Handled
  /\ m.room = "workingroom"
  /\ Len(m.alerts) > 1
  /\ Len(socket_out) = 2
  /\ socket_out[1].namespace = "bedroom"
  /\ socket_out[2].namespace = "workingroom"
  /\ socket_out[2].alerts = m.alerts

\* ------------------------------------------------------------ socket clients
\* C24: a client that connects to a room's namespace is sent, alone, one
\* sensor_data event of that namespace holding the most recent reading
\* decoded for that room (the initial values if there is none) and an empty
\* alert list.
C24_ConnectGetsLastKnown ==
  [][(count'.requests = count.requests + 1 /\ f'.surface = "connect") =>
       /\ Len(socket_out') = Len(socket_out) + 1
       /\ LET e == socket_out'[Len(socket_out')]
          IN /\ e.event = "sensor_data"
             /\ e.namespace = f'.asked
             /\ e.to = "sid"
             /\ e.alerts = <<>>
             /\ Fields(e) = LastKnown(f'.asked)]_vars

\* a client connects to the bedroom after a bedroom reading was broadcast
\* with alerts, while the workingroom holds other values
C24_Witness ==
  /\ f.surface = "connect"
  /\ f.asked = "bedroom"
  /\ Handled
  /\ m.room = "bedroom"
  /\ Len(m.alerts) > 0
  /\ f.i = Len(socket_out)
  /\ socket_out[f.i].alerts = <<>>
  /\ socket_out[f.i - 1].alerts = m.alerts
  /\ socket_out[f.i].tvoc = m.tvoc
  /\ current_data["workingroom"]["tvoc"] # m.tvoc

\* ------------------------------------------------------------------ restart
\* C25: after a restart, and until the next request, a room whose thresholds
\* were persisted holds the persisted values in memory.
C25_ThresholdsSurviveRestart ==
  (count.restarts > 0 /\ f = IdleF) =>
    \A r \in Rooms : \A k \in DOMAIN db_thresholds[r] :
      /\ k \in DOMAIN thresholds[r]
      /\ thresholds[r][k] = db_thresholds[r][k]

\* --------------------------------------------------- evaluation and updates
RequiredKeySet == {required_keys[j] : j \in 1..Len(required_keys)}

\* a threshold set with every posted field written
ApplyBody(th, body) ==
  [k \in DOMAIN th \cup RequiredKeySet |->
     IF k \in RequiredKeySet THEN body[k] ELSE th[k]]

\* the request in f is a POST on the thresholds of this room
PostFor(room) == f.surface = "thresholds-post" /\ f.room = room /\ ValidRoom(f.asked)

StatusUnder(x, th) ==
  IF x = "tvoc" THEN ClassifyTvoc(m.tvoc, th).status
  ELSE IF x = "temperature" THEN ClassifyTemperature(m.temperature, th).status
  ELSE IF x = "humidity" THEN ClassifyHumidity(m.humidity, th).status
  ELSE ClassifyEco2(m.eco2, th).status

ClassifiedUnder(th) == \A x \in Metrics : m.ghost[x].status = StatusUnder(x, th)

\* C26: an evaluation that has returned classified its four metrics either
\* all against the room's set as it was before the update request, or all
\* against the set with every field of an update that passes validation.
C26_EvaluationSeesOneSet ==
  Returned =>
    \/ ClassifiedUnder(IF PostFor(m.room) THEN f.before ELSE thresholds[m.room])
    \/ /\ PostFor(m.room)
       /\ ~Missing(f.body)
       /\ ~MinOverMax(f.body)
       /\ ClassifiedUnder(ApplyBody(f.before, f.body))

\* ------------------------------------------------------ rooms side by side
\* the bedroom's handler is at its persistence call or its notification call
BedroomWaits == m.room = "bedroom" /\ m.pc \in {"insert", "notify"}

\* C27: while the bedroom's evaluation waits on persistence or on the
\* notification call, a workingroom reading that has arrived can be taken in.
C27_RoomsDoNotBlock ==
  (BedroomWaits /\ count.msgs < MaxMsgs) =>
    ENABLED (\E payload \in FailPayloads : Receive(MQTT_TOPIC_WORKINGROOM, payload))

\* ------------------------------------------------------- incomplete updates
\* the answered request is a POST for a known room whose body lacks a field
LacksField ==
  /\ Answered
  /\ f.surface = "thresholds-post"
  /\ ValidRoom(f.asked)
  /\ \E k \in RequiredKeySet : k \notin DOMAIN f.body

\* C28: a threshold update missing a required field is answered with a
\* validation error (400), leaves every field of the room's in-memory set as
\* it was, writes no row and emits no thresholds_updated event.
C28_MissingFieldRejected ==
  LacksField =>
    /\ f.status = 400
    /\ f.error = "missing"
    /\ thresholds[f.room] = f.before
    /\ db_thresholds[f.room] = f.db_before
    /\ Updated(f.room) = f.updated0

C28_Witness ==
  /\ LacksField
  /\ f.room = "bedroom"
  /\ "eco2_max" \notin DOMAIN f.body
  /\ "tvoc_max" \in DOMAIN f.body
  /\ f.body["temp_max"] # f.before["temp_max"]
  /\ f.status = 400

\* ------------------------------------------------------------ unknown rooms
UnknownRooms == RequestRooms \ Rooms

\* C29: a request that names an unknown room, on current-data, history,
\* thresholds (GET or POST) or test-alert, is answered 400 "Invalid room";
\* it is served from no room's state, changes no room's thresholds, current
\* reading, cooldowns or stored rows, emits nothing and sends no notification.
C29_UnknownRoomRejected ==
  [][(f' # f /\ f'.asked \in UnknownRooms) =>
       /\ f'.status = 400
       /\ f'.error = "Invalid room"
       /\ f'.pc = "idle"
       /\ f'.served = ""
       /\ UNCHANGED <<thresholds, current_data, last_alert_time, db_thresholds,
                      sensor_data, alert_history, socket_out, telegram>>]_vars

C29_Witness ==
  /\ f.asked \in UnknownRooms
  /\ f.surface = "thresholds-post"
  /\ ~Missing(f.body)
  /\ ~MinOverMax(f.body)
  /\ f.status = 400
  /\ count.requests > 0

\* --------------------------------------------------------------------- AQI
AllQuiet == \A x \in Metrics : Quiet(x)

AqiLines(lines) == {k \in 1..Len(lines) : lines[k].tag = "aqi"}

\* C30: AQI is informational only. Whatever the aqi value, a reading whose
\* four metrics are all quiet sends no notification, logs nothing and leaves
\* the cooldown map as it was; no evaluation returns an alert for aqi or
\* records a cooldown key for it; every notification an evaluation sends
\* carries the AQI line once, as its last line, after a line of a metric that
\* fired.
C30_AqiInformationalOnly ==
  Returned =>
    /\ AllQuiet => /\ Len(SentByEval) = 0
                   /\ Len(LoggedByEval) = 0
                   /\ last_alert_time = m.lat0
    /\ \A k \in 1..Len(m.alerts) :
          m.alerts[k].type \in AlertKeys \cup {"humidity_abnormal"}
    /\ \A r \in Rooms : DOMAIN last_alert_time[r] \subseteq AlertKeys
    /\ \A k \in 1..Len(SentByEval) :
          LET lines == SentByEval[k].lines
          IN /\ \E x \in Metrics : Fired(x)
             /\ AqiLines(lines) = {Len(lines)}
             /\ Len(lines) > 1
             /\ lines[Len(lines)].value = m.aqi

C30_Witness ==
  /\ Returned
  /\ AllQuiet
  /\ m.aqi = 5
  /\ m.pc = "emit"
  /\ m.alert_messages[Len(m.alert_messages)] = AqiMsg(5)
  /\ Len(telegram) = 0

\* ---------------------------------------------------------- AQI categories
\* the category names of aqi 1..5, and the name of every other value
CategoryOf(aqi) ==
  IF aqi = 1 THEN "Excellent"
  ELSE IF aqi = 2 THEN "Good"
  ELSE IF aqi = 3 THEN "Moderate"
  ELSE IF aqi = 4 THEN "Poor"
  ELSE IF aqi = 5 THEN "Unhealthy"
  ELSE "Undefined"

\* C31: the AQI line of every notification names the category of the room's
\* current aqi: 1 Excellent, 2 Good, 3 Moderate, 4 Poor, 5 Unhealthy, and
\* Undefined for every other value.
C31_AqiLineNamesCategory ==
  \A k \in 1..Len(telegram) :
    LET lines == telegram[k].lines
        last == lines[Len(lines)]
    IN last.tag = "aqi" => last.text = CategoryOf(last.value)

\* ------------------------------------------------- cooldown map over time
\* C32: while the process runs, each room's cooldown map holds keys of
\* alerting tiers only (a subset of the nine alert keys, never tvoc_good,
\* tvoc_normal, temp_normal, humidity_normal or eco2_normal), and no step
\* removes a key from it: entries are created and overwritten, not deleted.
C32_CooldownKeysOnlyGrow ==
  /\ [](\A r \in Rooms : DOMAIN last_alert_time[r] \subseteq AlertKeys)
  /\ [][\A r \in Rooms :
          DOMAIN last_alert_time[r] \subseteq DOMAIN last_alert_time'[r]]_vars

\* a map of two keys of which one was overwritten by this evaluation
C32_Witness ==
  /\ Returned
  /\ Cardinality(DOMAIN last_alert_time[m.room]) >= 2
  /\ \E k \in DOMAIN m.lat0[m.room] :
        last_alert_time[m.room][k] > m.lat0[m.room][k]
  /\ \E k \in DOMAIN m.lat0[m.room] :
        last_alert_time[m.room][k] = m.lat0[m.room][k]

\* ------------------------------------------------- updates taking effect
\* the thresholds_updated events of this room emitted before the reading in m
\* was received
AcceptedBefore ==
  {i \in 1..m.socket0 : /\ socket_out[i].event = "thresholds_updated"
                        /\ socket_out[i].namespace = m.room}

LatestAccepted ==
  socket_out[CHOOSE i \in AcceptedBefore : \A j \in AcceptedBefore : j <= i].thresholds

\* C33: an evaluation that starts after an update of its room was accepted,
\* with that set still in force, carries a message for tvoc above the
\* submitted tvoc_max, for eco2 above the submitted eco2_max, for temperature
\* outside the submitted temp_min..temp_max and for humidity outside the
\* submitted humidity_min..humidity_max.
C33_UpdateTakesEffect ==
  (Returned /\ AcceptedBefore # {} /\ thresholds[m.room] = LatestAccepted) =>
    LET th == LatestAccepted
    IN /\ m.tvoc > th["tvoc_max"] => ~Quiet("tvoc")
       /\ m.eco2 > th["eco2_max"] => ~Quiet("eco2")
       /\ (m.temperature > th["temp_max"] \/ m.temperature < th["temp_min"])
            => ~Quiet("temperature")
       /\ (m.humidity > th["humidity_max"] \/ m.humidity < th["humidity_min"])
            => ~Quiet("humidity")

\* ------------------------------------------------------------- recurrence
\* the evaluation in m has decided key k of room r, which fired before, at a
\* time more than the key's window after that fire
PastWindow(r, k) ==
  /\ m.room = r
  /\ LET x == MetricOf(k)
         g == m.ghost[x]
     IN /\ g.key = k
        /\ g.outcome \in {"fired", "suppressed"}
        /\ k \in DOMAIN m.lat0[r]
        /\ m.current_time - m.lat0[r][k] > CooldownOf(x)

FiresAgain(r, k) ==
  /\ m.room = r
  /\ m.ghost[MetricOf(k)].key = k
  /\ Fired(MetricOf(k))

OtherRoom(r) == CHOOSE o \in Rooms : o # r

\* C35: a step of the handler working on a reading of room r, and a step of
\* a threshold update asked for room r, leave the other room's current
\* reading, threshold set and cooldown map as they were; and a key that is
\* not in the room's own cooldown map fires, whatever the other room's map
\* holds.
C35_RoomIsolation ==
  /\ [][\A r \in Rooms :
          (\/ m' # m /\ m'.room = r /\ m'.error = "" /\ f' = f
           \/ f' # f /\ f'.asked = r /\ m' = m)
            => /\ current_data'[OtherRoom(r)] = current_data[OtherRoom(r)]
               /\ thresholds'[OtherRoom(r)] = thresholds[OtherRoom(r)]
               /\ last_alert_time'[OtherRoom(r)] = last_alert_time[OtherRoom(r)]]_vars
  /\ [](\A x \in Metrics :
          (m.ghost[x].outcome \in {"fired", "suppressed"}
             /\ m.ghost[x].key \notin DOMAIN m.lat0[m.room]) => Fired(x))

\* a key fires in one room inside the window the other room's fire opened,
\* with an update of the first room accepted
C35_Witness ==
  /\ Returned
  /\ \E x \in Metrics :
        LET k == m.ghost[x].key
            o == OtherRoom(m.room)
        IN /\ Fired(x)
           /\ k \notin DOMAIN m.lat0[m.room]
           /\ k \in DOMAIN m.lat0[o]
           /\ m.current_time - m.lat0[o][k] <= CooldownOf(x)
  /\ db_thresholds[m.room] # EmptyDict
  /\ thresholds[m.room] # thresholds[OtherRoom(m.room)]

\* -------------------------------------------------------- aborted ingestion
\* C36: an ingestion that aborts on a decode error is atomic. From the step
\* in which on_message fails parsing or coercing the payload until the next
\* delivery, the handler is back at idle and the current readings, both
\* cooldown maps, the thresholds, the stored rows, the alert log, the
\* notifications and the broadcasts are as they were.
C36_AbortedIngestionIsAtomic ==
  [][m'.error = "decode" =>
       /\ m'.pc = "idle"
       /\ UNCHANGED <<current_data, last_alert_time, thresholds, sensor_data,
                      db_thresholds, alert_history, telegram, socket_out>>]_vars

\* a payload whose tvoc coerces and whose temperature does not, dropped after
\* a reading of the same room with another tvoc was stored
C36_Witness ==
  /\ m.pc = "idle"
  /\ m.error = "decode"
  /\ m.payload.json
  /\ "temperature" \in m.payload.text
  /\ "tvoc" \notin m.payload.text
  /\ Len(sensor_data[m.room]) = 1
  /\ current_data[m.room]["tvoc"] # m.payload.data["tvoc"]
  /\ current_data[m.room]["tvoc"] = sensor_data[m.room][1].tvoc

\* ------------------------------------------------------------------
\* The single-room server (src/server2.py): one sensor, three metrics, one
\* dict of thresholds, one cooldown map. Its state is held in the same
\* variables, without the per-room level.
\* ------------------------------------------------------------------
Metrics2 == {"tvoc", "temperature", "humidity"}

\* tvoc in thousandths of mg/m3 (tvoc_max 0.5 is 500)
DEFAULT_THRESHOLDS2 ==
  [tvoc_max |-> 500, temp_min |-> 18, temp_max |-> 30, humidity_min |-> 30,
   humidity_max |-> 70]

required_keys2 == <<"tvoc_max", "temp_min", "temp_max", "humidity_min", "humidity_max">>

\* readings published on the one topic
Payloads2 ==
  { [tvoc |-> 100, temperature |-> 10, humidity |-> 50],
    [tvoc |-> 100, temperature |-> 35, humidity |-> 50],
    [tvoc |-> 100, temperature |-> 25, humidity |-> 20],
    [tvoc |-> 100, temperature |-> 25, humidity |-> 80],
    [tvoc |-> 700, temperature |-> 25] }    \* no humidity field: 0 is taken

\* JSON bodies posted to /api/thresholds: a valid one, one without
\* humidity_max, one with temp_min above temp_max, one with humidity_min
\* above humidity_max
Bodies2 ==
  { [tvoc_max |-> 600, temp_min |-> 20, temp_max |-> 28, humidity_min |-> 40,
     humidity_max |-> 60],
    [tvoc_max |-> 600, temp_min |-> 20, temp_max |-> 28, humidity_min |-> 40],
    [tvoc_max |-> 500, temp_min |-> 32, temp_max |-> 30, humidity_min |-> 30,
     humidity_max |-> 70],
    [tvoc_max |-> 500, temp_min |-> 18, temp_max |-> 30, humidity_min |-> 80,
     humidity_max |-> 70] }

Gaps2 == {TvocCooldown, ComfortCooldown + 1}

\* what one metric's block records about itself (not program state)
PendingGhost2 == [side |-> "", outcome |-> "pending", lowAt |-> -1, highAt |-> -1]

IdleM2 ==
  [pc |-> "idle", tvoc |-> 0, temperature |-> 0, humidity |-> 0,
   current_time |-> 0, alerts |-> <<>>,
   ghost |-> [x \in Metrics2 |-> PendingGhost2]]

IdleF2 ==
  [pc |-> "idle", body |-> EmptyDict, i |-> 1, status |-> 0, error |-> "",
   before |-> DEFAULT_THRESHOLDS2, db_before |-> EmptyDict, updated0 |-> 0]

\* lines 51-68 and the module level of server2.py
Init2 ==
  /\ thresholds = DEFAULT_THRESHOLDS2
  /\ last_alert_time = EmptyDict
  /\ current_data = [tvoc |-> 0, temperature |-> 0, humidity |-> 0, timestamp |-> 0]
  /\ now = 0
  /\ sensor_data = <<>>
  /\ db_thresholds = EmptyDict
  /\ alert_history = <<>>
  /\ telegram = <<>>
  /\ socket_out = <<>>
  /\ m = IdleM2
  /\ f = IdleF2
  /\ count = [msgs |-> 0, updates |-> 0, ticks |-> 0, fails |-> 0,
              requests |-> 0, restarts |-> 0]
  /\ prev = [x \in Metrics2 |-> [low |-> -1, high |-> -1]]
  /\ probe = NoProbe

\* data.get(key, default)
Get2(data, key, default) == IF key \in DOMAIN data THEN data[key] ELSE default

\* lines 293-307: decode, coerce, replace current data
Receive2(data) ==
  /\ m.pc = "idle"
  /\ count.msgs < MaxMsgs
  /\ LET tvoc == Get2(data, "tvoc", 0)
         temperature == Get2(data, "temperature", 0)
         humidity == Get2(data, "humidity", 0)
     IN /\ current_data' = [tvoc |-> tvoc, temperature |-> temperature,
                            humidity |-> humidity, timestamp |-> now]
        /\ m' = [IdleM2 EXCEPT !.pc = "insert", !.tvoc = tvoc,
                               !.temperature = temperature, !.humidity = humidity]
  /\ count' = [count EXCEPT !.msgs = @ + 1]
  /\ UNCHANGED <<thresholds, last_alert_time, now, sensor_data, db_thresholds,
                 alert_history, telegram, socket_out, f, prev, probe>>

\* lines 310 and 313 up to 218: the row is inserted, the evaluator is entered
\* and reads the clock
Insert2 ==
  /\ m.pc = "insert"
  /\ sensor_data' = Append(sensor_data,
        [tvoc |-> m.tvoc, temperature |-> m.temperature, humidity |-> m.humidity])
  /\ m' = [m EXCEPT !.pc = "tvoc", !.current_time = now]
  /\ UNCHANGED <<thresholds, last_alert_time, current_data, now, db_thresholds,
                 alert_history, telegram, socket_out, f, count, prev, probe>>

\* one block of check_thresholds_and_alert: the condition, the cooldown test
\* on the block's one alert_key, and the send, log, record, append of a fire
EvalBlock2(x, value, side, alert_key, cooldown, bound, pc) ==
  LET breach == side # "none"
      fire == breach /\ CooldownElapsed(last_alert_time, alert_key,
                                        m.current_time, cooldown)
      ghost == [side |-> side,
                outcome |-> IF ~breach THEN "quiet"
                            ELSE IF fire THEN "fired" ELSE "suppressed",
                lowAt |-> prev[x].low, highAt |-> prev[x].high]
  IN /\ m' = [m EXCEPT !.pc = pc, !.ghost[x] = ghost,
                       !.alerts = IF fire
                                  THEN Append(@, [type |-> alert_key, value |-> value])
                                  ELSE @]
     /\ telegram' = IF fire
                    THEN Append(telegram, [tag |-> alert_key, side |-> side,
                                           value |-> value, bound |-> bound,
                                           at |-> m.current_time])
                    ELSE telegram
     /\ alert_history' = IF fire
                         THEN Append(alert_history,
                                [alert_type |-> alert_key, value |-> value,
                                 threshold_value |-> bound])
                         ELSE alert_history
     /\ last_alert_time' = IF fire
                           THEN Put(last_alert_time, alert_key, m.current_time)
                           ELSE last_alert_time
     /\ prev' = IF fire /\ side = "low"
                THEN [prev EXCEPT ![x].low = m.current_time]
                ELSE IF fire THEN [prev EXCEPT ![x].high = m.current_time]
                ELSE prev
     /\ UNCHANGED <<thresholds, current_data, now, sensor_data, db_thresholds,
                    socket_out, f, count, probe>>

\* lines 221-237: if tvoc > thresholds['tvoc_max'], key 'tvoc_high', 300 s
EvalTvoc2 ==
  /\ m.pc = "tvoc"
  /\ EvalBlock2("tvoc", m.tvoc,
                IF m.tvoc > thresholds["tvoc_max"] THEN "high" ELSE "none",
                "tvoc_high", TvocCooldown, thresholds["tvoc_max"], "temperature")

\* lines 240-259: below temp_min or above temp_max, key 'temp_abnormal', 600 s
EvalTemperature2 ==
  /\ m.pc = "temperature"
  /\ LET low == m.temperature < thresholds["temp_min"]
         high == m.temperature > thresholds["temp_max"]
     IN EvalBlock2("temperature", m.temperature,
                   IF low THEN "low" ELSE IF high THEN "high" ELSE "none",
                   "temp_abnormal", ComfortCooldown,
                   IF low THEN thresholds["temp_min"] ELSE thresholds["temp_max"],
                   "humidity")

\* lines 262-279: below humidity_min or above humidity_max, key
\* 'humidity_abnormal', 600 s
EvalHumidity2 ==
  /\ m.pc = "humidity"
  /\ LET low == m.humidity < thresholds["humidity_min"]
         high == m.humidity > thresholds["humidity_max"]
     IN EvalBlock2("humidity", m.humidity,
                   IF low THEN "low" ELSE IF high THEN "high" ELSE "none",
                   "humidity_abnormal", ComfortCooldown,
                   IF low THEN thresholds["humidity_min"]
                   ELSE thresholds["humidity_max"],
                   "emit")

\* lines 316-322
Emit2 ==
  /\ m.pc = "emit"
  /\ socket_out' = Append(socket_out,
        [event |-> "sensor_data", tvoc |-> m.tvoc, temperature |-> m.temperature,
         humidity |-> m.humidity, timestamp |-> current_data["timestamp"],
         alerts |-> m.alerts])
  /\ m' = [m EXCEPT !.pc = "idle"]
  /\ UNCHANGED <<thresholds, last_alert_time, current_data, now, sensor_data,
                 db_thresholds, alert_history, telegram, f, count, prev, probe>>

Updated2 ==
  Cardinality({i \in 1..Len(socket_out) : socket_out[i].event = "thresholds_updated"})

\* lines 1187-1192: POST, the body is read and the loop over required_keys
\* is entered
PostBegin2(body) ==
  /\ f.pc = "idle"
  /\ count.updates < MaxUpdates
  /\ f' = [IdleF2 EXCEPT !.pc = "loop", !.body = body, !.before = thresholds,
                         !.db_before = db_thresholds, !.updated0 = Updated2]
  /\ count' = [count EXCEPT !.updates = @ + 1]
  /\ UNCHANGED <<thresholds, last_alert_time, current_data, now, sensor_data,
                 db_thresholds, alert_history, telegram, socket_out, m, prev,
                 probe>>

\* lines 1192-1195, one pass of the loop: a key that is not in the body
\* answers 400; a key that is there is written to the live dict at once
PostLoop2 ==
  /\ f.pc = "loop"
  /\ LET key == required_keys2[f.i]
     IN IF key \notin DOMAIN f.body
        THEN /\ f' = [f EXCEPT !.pc = "idle", !.status = 400, !.error = "missing"]
             /\ thresholds' = thresholds
        ELSE /\ thresholds' = Put(thresholds, key, f.body[key])
             /\ f' = IF f.i = Len(required_keys2) THEN [f EXCEPT !.pc = "save"]
                     ELSE [f EXCEPT !.i = @ + 1]
  /\ UNCHANGED <<last_alert_time, current_data, now, sensor_data, db_thresholds,
                 alert_history, telegram, socket_out, m, count, prev, probe>>

\* lines 1197-1205: the row is replaced, thresholds_updated is emitted, 200
PostSave2 ==
  /\ f.pc = "save"
  /\ db_thresholds' = thresholds
  /\ socket_out' = Append(socket_out,
        [event |-> "thresholds_updated", thresholds |-> thresholds])
  /\ f' = [f EXCEPT !.pc = "idle", !.status = 200]
  /\ UNCHANGED <<thresholds, last_alert_time, current_data, now, sensor_data,
                 alert_history, telegram, m, count, prev, probe>>

Next2 ==
  \/ \E d \in Gaps2 : Tick(d)
  \/ \E data \in Payloads2 : Receive2(data)
  \/ Insert2
  \/ EvalTvoc2
  \/ EvalTemperature2
  \/ EvalHumidity2
  \/ Emit2
  \/ \E body \in Bodies2 : PostBegin2(body)
  \/ PostLoop2
  \/ PostSave2

\* server2.py: the MQTT thread and one POST /api/thresholds at a time
Spec2 == Init2 /\ [][Next2]_vars

\* ------------------------------------------------- single-room: updates
Rejectable2(body) ==
  \/ \E j \in 1..Len(required_keys2) : required_keys2[j] \notin DOMAIN body
  \/ body["temp_min"] > body["temp_max"]
  \/ body["humidity_min"] > body["humidity_max"]

\* C37: in the single-room server a POST /api/thresholds that lacks a
\* required field, or has temp_min above temp_max, or humidity_min above
\* humidity_max, is answered with an error and leaves every threshold field,
\* the stored row and the broadcasts as they were.
C37_SingleRoomUpdateAllOrNothing ==
  (Answered /\ Rejectable2(f.body)) =>
    /\ f.status = 400
    /\ thresholds = f.before
    /\ db_thresholds = f.db_before
    /\ Updated2 = f.updated0

\* ------------------------------------------------ single-room: cooldown
\* C38: in the single-room server a too-high temperature (or humidity)
\* evaluated within 600 s of a fired too-low alert of the same metric, with
\* no too-high alert of its own inside the window, fires.
C38_SingleRoomKeyPerTier ==
  \A x \in {"temperature", "humidity"} :
    LET g == m.ghost[x]
    IN (/\ g.side = "high"
        /\ g.outcome \in {"fired", "suppressed"}
        /\ g.lowAt >= 0
        /\ m.current_time - g.lowAt <= ComfortCooldown
        /\ (g.highAt < 0 \/ m.current_time - g.highAt > ComfortCooldown))
         => g.outcome = "fired"

====
